---- MODULE Spec2Model ----
(***************************************************************************)
(* Conversation orchestration engine of QuickBot-LoanApproval.             *)
(*                                                                         *)
(* Part 1 models ConversationStateManager                                  *)
(* (app/services/conversation_state_manager.py): the stage state machine,  *)
(* the active and paused stores and the snapshot history.                  *)
(*                                                                         *)
(* Python values are modelled as follows.  None is the string "None" for   *)
(* optional strings, the empty sequence for an optional object (a present  *)
(* object is a one-element sequence) and 0 for an optional number.  A      *)
(* dict is a function whose DOMAIN is its key set, so a missing key is a   *)
(* KeyError the model can see.  datetime values are seconds on the clock   *)
(* `now`.  The write-only statistics of state_metrics are not modelled.    *)
(***************************************************************************)
EXTENDS Integers, Sequences, FiniteSets, TLC

\* ------------------------------------------------------------------ bounds
\* Long clock steps (just over 24 hours) a behaviour may take.
MaxLongTicks == 2
\* Messages a conversation history may hold.
MaxMessages == 4
\* Successful transitions a conversation may make.
MaxTransitions == 2
\* Snapshots a history may hold when a pause or a transition adds one more.
MaxSnapshots == 3
\* Messages the saved history of a session of master_agent.MasterAgent may hold.
MaxSessionMessages == 5
\* Calls of route_request the router's total_routings counter may count.
MaxRoutings == 2
\* Requests the metrics of one agent of the router may count.
MaxAgentRequests == 2
\* Calls of orchestrate_conversation the orchestrator's total_conversations
\* counter may count.
MaxConversations == 2
\* Successful transitions of a conversation whose history is filled to its
\* limit and beyond.
MaxLongTransitions == 52
\* Seconds the clock may advance while a history is filled.
MaxHistorySeconds == 1
\* Entries of the conversation histories of the sessions of one client.
MaxSalesMessages == 8
MaxForwardTransitions == 4

\* ------------------------------------------------------------- enumerations
None == "None"

GREETING == "greeting"
SALES == "sales"
VERIFICATION == "verification"
ESCALATED == "escalated"
UNDERWRITING == "underwriting"
SALARY_SLIP == "salary_slip"
DECISION == "decision"
APPROVED == "approved"
REJECTED == "rejected"
COMPLETED == "completed"

ChatStage ==
    {GREETING, SALES, VERIFICATION, ESCALATED, UNDERWRITING, SALARY_SLIP,
     DECISION, APPROVED, REJECTED, COMPLETED}

FORWARD == "forward"
BACKWARD == "backward"
JUMP == "jump"
RESTART == "restart"

\* ESCALATE, PAUSE and RESUME take the same path through
\* _validate_transition as RESTART (no branch of the if/elif chain).
StateTransition == {FORWARD, BACKWARD, JUMP, RESTART}

\* The fields ConversationContext declares; hasattr is true of exactly these.
ContextFields ==
    {"session_id", "customer_phone", "customer_data", "loan_request",
     "verification_status", "credit_score", "pre_approved_limit",
     "underwriting_result", "salary_slip_uploaded", "conversation_history",
     "current_stage", "metadata"}

\* -------------------------------------------------------------------- clock
LongTick == 86401
time_threshold == 1800
AbandonMinutes == 30
ResumeWindowHours == 24
max_age_hours == 48
HistoryLimit == 50
repeated_failures == 3

\* ------------------------------------------------------------ input values
Phone1 == "9876543210"
Loan1 == <<[amount |-> 500000, tenure |-> 24, purpose |-> "personal"]>>
NoLoan == <<>>

\* Kinds of message a history entry can be: a user message, a user message
\* holding one of the user_frustration trigger words, an assistant message.
UserMsg == "user"
FrustratedMsg == "user_frustrated"
AssistantMsg == "assistant"

\* -------------------------------------------------------- transition rules
natural_flow(stage) ==
    CASE stage = GREETING -> SALES
      [] stage = SALES -> VERIFICATION
      [] stage = VERIFICATION -> UNDERWRITING
      [] stage = UNDERWRITING -> APPROVED
      [] OTHER -> None

allowed_jumps(stage) ==
    CASE stage = GREETING -> {SALES, VERIFICATION}
      [] stage = SALES -> {VERIFICATION, UNDERWRITING}
      [] stage = VERIFICATION -> {SALES, UNDERWRITING}
      [] stage = UNDERWRITING -> {SALES, VERIFICATION}
      [] OTHER -> {}

\* backward_allowed with VERIFICATION also listed for APPROVED.
backward_allowed_from_outcome(stage) ==
    CASE stage = SALES -> {GREETING}
      [] stage = VERIFICATION -> {SALES, GREETING}
      [] stage = UNDERWRITING -> {VERIFICATION, SALES}
      [] stage = APPROVED -> {UNDERWRITING, VERIFICATION}
      [] OTHER -> {}

backward_allowed(stage) ==
    CASE stage = SALES -> {GREETING}
      [] stage = VERIFICATION -> {SALES, GREETING}
      [] stage = UNDERWRITING -> {VERIFICATION, SALES}
      [] stage = APPROVED -> {UNDERWRITING}
      [] OTHER -> {}

completion_stages == {APPROVED, REJECTED}

\* --------------------------------------------------------- validation rules
required_context(stage) ==
    CASE stage = SALES -> {"customer_intent"}
      [] stage = VERIFICATION -> {"customer_phone", "loan_request"}
      [] stage = UNDERWRITING ->
            {"customer_phone", "loan_request", "verification_status"}
      [] OTHER -> {}

min_messages(stage) ==
    CASE stage = GREETING -> 1
      [] stage = SALES -> 2
      [] stage = VERIFICATION -> 3
      [] stage = UNDERWRITING -> 4
      [] OTHER -> 0

validation_functions(stage) ==
    CASE stage = GREETING -> {"validate_session_start"}
      [] stage = SALES -> {"validate_customer_engagement"}
      [] stage = VERIFICATION ->
            {"validate_loan_requirements", "validate_customer_contact"}
      [] stage = UNDERWRITING ->
            {"validate_verification_complete", "validate_eligibility_data"}
      [] OTHER -> {}

\* getattr(context, req) is None, for the fields required_context names.
AttrIsNone(context, req) ==
    CASE req = "customer_phone" -> context.customer_phone = None
      [] req = "loan_request" -> context.loan_request = NoLoan
      [] req = "verification_status" -> context.verification_status = None
      [] OTHER -> TRUE

\* The message a failing validation function reports, {} when it passes.
run_validation_function(func_name, context) ==
    CASE func_name = "validate_customer_engagement" ->
            IF Len(context.conversation_history) < 2
            THEN {"Insufficient customer engagement"} ELSE {}
      [] func_name = "validate_loan_requirements" ->
            IF context.loan_request = NoLoan
            THEN {"Loan requirements not specified"} ELSE {}
      [] func_name = "validate_customer_contact" ->
            IF context.customer_phone \in {None, ""}
            THEN {"Customer contact information missing"} ELSE {}
      [] func_name = "validate_verification_complete" ->
            IF context.verification_status # "completed"
            THEN {"Verification not completed"} ELSE {}
      [] func_name = "validate_eligibility_data" ->
            IF "credit_score" \notin ContextFields
            THEN {"Eligibility data incomplete"} ELSE {}
      [] OTHER -> {}

\* The missing_requirements of _validate_stage_requirements.
missing_requirements(stage, context) ==
    {"Missing " \o req : req \in
        {r \in required_context(stage) :
            r \notin ContextFields \/ AttrIsNone(context, r)}}
    \cup (IF Len(context.conversation_history) < min_messages(stage)
          THEN {"Need more messages"} ELSE {})
    \cup UNION {run_validation_function(f, context) :
                    f \in validation_functions(stage)}

validate_stage_requirements(stage, context) ==
    missing_requirements(stage, context) = {}

\* validate_jump_conditions with the closing `return False` of line 322
\* turned into an acceptance: the target of a Jump is not looked at.
validate_jump_conditions_any_target(current_stage, target_stage, context) ==
    TRUE

validate_jump_conditions(current_stage, target_stage, context) ==
    IF /\ target_stage = VERIFICATION
       /\ context.customer_phone \notin {None, ""}
       /\ context.loan_request # NoLoan
    THEN TRUE
    ELSE IF /\ target_stage = UNDERWRITING
            /\ context.customer_phone \notin {None, ""}
            /\ context.loan_request # NoLoan
         THEN \/ "verification_status" \in ContextFields
              \/ ("skip_verification" \in DOMAIN context.metadata
                    /\ context.metadata.skip_verification)
         ELSE FALSE

Validated == [valid |-> TRUE, message |-> "Transition validated"]
Invalid(msg) == [valid |-> FALSE, message |-> msg]

StageRequirementsCheck(new_stage, context) ==
    IF validate_stage_requirements(new_stage, context)
    THEN Validated
    ELSE Invalid("Stage requirements not met")

\* The rest of _validate_transition once the kind is not FORWARD.
\* (Used by the variants below; validate_transition spells it out.)
validate_not_forward(current_stage, new_stage, transition_type, context) ==
    IF transition_type = BACKWARD
    THEN IF new_stage \notin backward_allowed(current_stage)
         THEN Invalid("Backward transition not allowed")
         ELSE StageRequirementsCheck(new_stage, context)
    ELSE IF transition_type = JUMP
    THEN IF ~validate_jump_conditions(current_stage, new_stage, context)
         THEN Invalid("Jump conditions not met")
         ELSE StageRequirementsCheck(new_stage, context)
    ELSE StageRequirementsCheck(new_stage, context)

\* validate_transition without the allowed_jumps test of line 258.
validate_transition_any_forward(current_stage, new_stage, transition_type, context) ==
    IF transition_type = FORWARD
    THEN IF new_stage # natural_flow(current_stage)
         THEN StageRequirementsCheck(new_stage, context)
         ELSE Validated
    ELSE validate_not_forward(current_stage, new_stage, transition_type,
                              context)

\* validate_transition with the Backward branch returning as the natural
\* Forward branch does, before the stage requirements are looked at.
validate_transition_backward_unchecked(current_stage, new_stage, transition_type, context) ==
    IF transition_type = FORWARD
    THEN IF new_stage # natural_flow(current_stage)
         THEN IF new_stage \notin allowed_jumps(current_stage)
              THEN Invalid("Invalid forward transition")
              ELSE StageRequirementsCheck(new_stage, context)
         ELSE Validated
    ELSE IF transition_type = BACKWARD
    THEN IF new_stage \notin backward_allowed(current_stage)
         THEN Invalid("Backward transition not allowed")
         ELSE Validated
    ELSE validate_not_forward(current_stage, new_stage, transition_type,
                              context)

\* validate_transition without the early return of line 263: the natural
\* Forward transition falls through to the stage requirements.
validate_transition_forward_checked(current_stage, new_stage, transition_type, context) ==
    IF transition_type = FORWARD
    THEN IF new_stage # natural_flow(current_stage)
            /\ new_stage \notin allowed_jumps(current_stage)
         THEN Invalid("Invalid forward transition")
         ELSE StageRequirementsCheck(new_stage, context)
    ELSE validate_not_forward(current_stage, new_stage, transition_type,
                              context)

validate_transition(current_stage, new_stage, transition_type, context) ==
    IF transition_type = FORWARD
    THEN IF new_stage # natural_flow(current_stage)
         THEN IF new_stage \notin allowed_jumps(current_stage)
              THEN Invalid("Invalid forward transition")
              ELSE StageRequirementsCheck(new_stage, context)
         ELSE Validated
    ELSE IF transition_type = BACKWARD
    THEN IF new_stage \notin backward_allowed(current_stage)
         THEN Invalid("Backward transition not allowed")
         ELSE StageRequirementsCheck(new_stage, context)
    ELSE IF transition_type = JUMP
    THEN IF ~validate_jump_conditions(current_stage, new_stage, context)
         THEN Invalid("Jump conditions not met")
         ELSE StageRequirementsCheck(new_stage, context)
    ELSE StageRequirementsCheck(new_stage, context)

\* ------------------------------------------------------------------- state
VARIABLES
    active_conversations,  \* session id -> ConversationContext
    paused_conversations,  \* session id -> [pause_time, context]
    state_history,         \* session id -> sequence of StateSnapshot
    now,                   \* the clock, in seconds
    ret,                   \* what the last call returned
    lock,                  \* ConversationStateManager._lock: its holder
    tasks,                 \* the coroutines in flight, each with its position
    chat_sessions,         \* the ChatSession table: session id -> saved context
    router,                \* IntelligentAgentRouter: availability, load, metrics
    orchestrator           \* AgentOrchestrator: agents, agent_states, metrics

smVars == <<active_conversations, paused_conversations, state_history, now>>
otherVars == <<lock, tasks, chat_sessions, router, orchestrator>>
vars ==
    <<active_conversations, paused_conversations, state_history, now, ret,
      lock, tasks, chat_sessions, router, orchestrator>>

SessionIds == {"s1"}
TaskIds == {"t1", "t2"}

\* The lock when no coroutine holds it.
Free == "free"

\* The frame of a coroutine that has not been created.
IdleTask ==
    [pc |-> "idle", op |-> None, session_id |-> None, new_stage |-> None,
     transition_type |-> None, context_updates |-> <<>>, result |-> None,
     gathered |-> FALSE, count_before |-> 0, cutoff_time |-> 0]

\* A dict with key k set to v, and with key k deleted.
Put(d, k, v) == (k :> v) @@ d
Del(d, k) == [x \in DOMAIN d \ {k} |-> d[x]]
EmptyDict == <<>>

Ret(op, id, outcome, message) ==
    [op |-> op, id |-> id, outcome |-> outcome, message |-> message,
     new_stage |-> None, kind |-> None]

\* The return value of transition_stage: the success flag and the message.
\* A success message names the stage moved to; of a rejection message the
\* model keeps the rule that rejected, not the stage names it quotes.
TransitionRet(id, new_stage, kind, outcome, message) ==
    [op |-> "transition_stage", id |-> id, outcome |-> outcome,
     message |-> message,
     new_stage |-> IF outcome = "rejected" THEN None ELSE new_stage,
     kind |-> kind]

\* No state manager call has returned since the last step of the environment.
NoCall == Ret("none", None, "ok", None)

\* The Context initialize_conversation builds.
NewContext(t) ==
    [current_stage |-> GREETING,
     customer_phone |-> None,
     loan_request |-> NoLoan,
     verification_status |-> None,
     conversation_history |-> <<>>,
     metadata |->
        [conversation_state |-> "active",
         start_time |-> t,
         last_activity |-> t,
         transition_count |-> 0,
         escalation_flags |-> <<>>]]

Last(s, n) == IF Len(s) > n THEN SubSeq(s, Len(s) - n + 1, Len(s)) ELSE s

\* create_state_snapshot cutting an over-long history at its end: the
\* snapshots beyond the limit, the newest ones, are dropped.
create_state_snapshot_keeping_oldest(history, context, t) ==
    LET appended ==
            Append(history,
                   [timestamp |-> t,
                    stage |-> context.current_stage,
                    conversation_length |-> Len(context.conversation_history)])
    IN IF Len(appended) > HistoryLimit
       THEN SubSeq(appended, 1, HistoryLimit)
       ELSE appended

\* The history after _create_state_snapshot appended to it.
create_state_snapshot(history, context, t) ==
    Last(Append(history,
                [timestamp |-> t,
                 stage |-> context.current_stage,
                 conversation_length |-> Len(context.conversation_history)]),
         HistoryLimit)

\* The escalation_flags _check_escalation_conditions appends.
RECURSIVE FrustrationFlags(_)
FrustrationFlags(msgs) ==
    IF msgs = <<>> THEN <<>>
    ELSE (IF Head(msgs) = FrustratedMsg THEN <<"user_frustration">> ELSE <<>>)
         \o FrustrationFlags(Tail(msgs))

check_escalation_conditions(context, t) ==
    LET md == context.metadata
        flags == md.escalation_flags
                 \o FrustrationFlags(Last(context.conversation_history, 3))
                 \o (IF md.transition_count > repeated_failures
                     THEN <<"repeated_failures">> ELSE <<>>)
                 \o (IF t - md.start_time > time_threshold
                     THEN <<"time_threshold">> ELSE <<>>)
    IN [context EXCEPT
            !.metadata.escalation_flags = flags,
            !.metadata.conversation_state =
                IF flags # <<>> THEN "escalated" ELSE @]

check_abandonment_conditions(context, t) ==
    IF t - context.metadata.last_activity > AbandonMinutes * 60
    THEN [context EXCEPT !.metadata.conversation_state = "abandoned"]
    ELSE context

check_conversation_conditions(context, t) ==
    LET completed ==
            IF context.current_stage \in completion_stages
            THEN [context EXCEPT !.metadata.conversation_state = "completed"]
            ELSE context
    IN check_abandonment_conditions(check_escalation_conditions(completed, t), t)

\* setattr(context, key, value) for every item of context_updates.
ApplyUpdates(context, context_updates) ==
    [f \in DOMAIN context |->
        IF f \in DOMAIN context_updates THEN context_updates[f] ELSE context[f]]

\* PerformTransition without the assignment of line 222: the activity stamp
\* is left as it was.
PerformTransition_keeping_activity(context, new_stage, t) ==
    [context EXCEPT !.current_stage = new_stage]

\* The context after lines 220-223 of transition_stage, up to the increment.
PerformTransition(context, new_stage, t) ==
    [context EXCEPT !.current_stage = new_stage,
                    !.metadata = Put(@, "last_activity", t)]

\* The context when the lock is released at line 223.
CountedContext(context, new_stage, t) ==
    [PerformTransition(context, new_stage, t)
        EXCEPT !.metadata.transition_count = @ + 1]

\* The context after lines 226-234, which run once the lock is released.
TailContext(context, context_updates, t) ==
    check_conversation_conditions(ApplyUpdates(context, context_updates), t)

\* The context after a transition_stage call that returned success.
TransitionedContext(context, new_stage, context_updates, t) ==
    TailContext(CountedContext(context, new_stage, t), context_updates, t)

\* ------------------------------------------------- state manager operations
\* Inputs the operations are called with.
PauseReasons == {"user_request"}
ContextUpdates == {EmptyDict, [verification_status |-> "completed"]}

\* What the Responders write into the Context they are handed
\* (SalesAgent the loan request, VerificationAgent the verification result,
\* MasterAgent._get_or_create_context the phone number).
AgentWrites ==
    {[customer_phone |-> Phone1],
     [loan_request |-> Loan1],
     [verification_status |-> "True"]}

initialize_conversation(session_id) ==
    LET context == NewContext(now)
    IN /\ active_conversations' = Put(active_conversations, session_id, context)
       /\ state_history' =
            Put(state_history, session_id,
                create_state_snapshot(<<>>, context, now))
       /\ ret' = Ret("initialize_conversation", session_id, "ok", None)
       /\ UNCHANGED <<paused_conversations, now, otherVars>>

\* rejected_transition with the snapshot of line 217 and the activity
\* stamp of line 222 taken before the validation result is looked at.
rejected_transition_after_snapshot(session_id, new_stage, transition_type, message) ==
    /\ ret' = TransitionRet(session_id, new_stage, transition_type,
                            "rejected", message)
    /\ IF session_id \in DOMAIN active_conversations
          /\ session_id \in DOMAIN state_history
          /\ Len(state_history[session_id]) < MaxSnapshots
       THEN /\ state_history' =
                 Put(state_history, session_id,
                     create_state_snapshot(state_history[session_id],
                                           active_conversations[session_id],
                                           now))
            /\ active_conversations' =
                 [active_conversations EXCEPT
                    ![session_id].metadata = Put(@, "last_activity", now)]
            /\ UNCHANGED <<paused_conversations, now, otherVars>>
       ELSE UNCHANGED <<smVars, otherVars>>

\* `return False, message` at lines 203 and 214: nothing was written.
rejected_transition(session_id, new_stage, transition_type, message) ==
    /\ ret' = TransitionRet(session_id, new_stage, transition_type,
                            "rejected", message)
    /\ UNCHANGED <<smVars, otherVars>>

\* transition_stage, for a conversation that has made fewer than
\* max_transitions transitions and holds fewer than max_snapshots snapshots.
transition_stage_upto(session_id, new_stage, transition_type, context_updates, max_transitions, max_snapshots) ==
    IF session_id \notin DOMAIN active_conversations
    THEN rejected_transition(session_id, new_stage, transition_type,
                             "Conversation not found")
    ELSE
      LET context == active_conversations[session_id]
          v == validate_transition(context.current_stage, new_stage,
                                   transition_type, context)
      IN IF ~v.valid
         THEN rejected_transition(session_id, new_stage, transition_type,
                                  v.message)
         ELSE IF session_id \notin DOMAIN state_history
         THEN \* _create_state_snapshot: KeyError, nothing written yet
              /\ ret' = TransitionRet(session_id, new_stage, transition_type,
                                      "raised", "KeyError")
              /\ UNCHANGED <<smVars, otherVars>>
         ELSE IF "transition_count" \notin DOMAIN context.metadata
         THEN \* line 223: KeyError after the stage was written
              /\ active_conversations' =
                    Put(active_conversations, session_id,
                        PerformTransition(context, new_stage, now))
              /\ state_history' =
                    Put(state_history, session_id,
                        create_state_snapshot(state_history[session_id],
                                              context, now))
              /\ ret' = TransitionRet(session_id, new_stage, transition_type,
                                      "raised", "KeyError")
              /\ UNCHANGED <<paused_conversations, now, otherVars>>
         ELSE /\ context.metadata.transition_count < max_transitions
              /\ Len(state_history[session_id]) < max_snapshots
              /\ active_conversations' =
                    Put(active_conversations, session_id,
                        TransitionedContext(context, new_stage,
                                            context_updates, now))
              /\ state_history' =
                    Put(state_history, session_id,
                        create_state_snapshot(state_history[session_id],
                                              context, now))
              /\ ret' = TransitionRet(session_id, new_stage, transition_type,
                                      "ok", "Successfully transitioned")
              /\ UNCHANGED <<paused_conversations, now, otherVars>>

transition_stage(session_id, new_stage, transition_type, context_updates) ==
    transition_stage_upto(session_id, new_stage, transition_type,
                          context_updates, MaxTransitions, MaxSnapshots)

\* paused_context with the history dropped and the stage reset on pause.
paused_context_without_history(context, reason) ==
    [context EXCEPT
        !.conversation_history = <<>>,
        !.current_stage = GREETING,
        !.metadata =
            Put(Put(@, "conversation_state", "paused"), "pause_reason", reason)]

\* The Context pause_conversation leaves in the paused store (lines 492-493).
paused_context(context, reason) ==
    [context EXCEPT !.metadata =
        Put(Put(@, "conversation_state", "paused"), "pause_reason", reason)]

\* The Context resume_conversation puts back and returns (lines 512-519).
resumed_context(entry, t) ==
    [entry.context EXCEPT !.metadata =
        Put(Put(Put(@, "conversation_state", "active"), "last_activity", t),
            "resume_time", t)]

\* too_old_to_resume with the window of line 507 never closing.
too_old_to_resume_never(entry, t) ==
    FALSE

\* The test of line 507: the pause is older than the resume window.
too_old_to_resume(entry, t) ==
    t - entry.pause_time > ResumeWindowHours * 3600

pause_conversation(session_id, reason) ==
    IF session_id \notin DOMAIN active_conversations
    THEN /\ ret' = Ret("pause_conversation", session_id, "rejected", None)
         /\ UNCHANGED <<smVars, otherVars>>
    ELSE IF session_id \notin DOMAIN state_history
    THEN /\ ret' = Ret("pause_conversation", session_id, "raised", "KeyError")
         /\ UNCHANGED <<smVars, otherVars>>
    ELSE
      LET context == active_conversations[session_id]
          pausedContext == paused_context(context, reason)
      IN /\ Len(state_history[session_id]) < MaxSnapshots
         /\ state_history' =
                Put(state_history, session_id,
                    create_state_snapshot(state_history[session_id],
                                          context, now))
         /\ paused_conversations' =
                Put(paused_conversations, session_id,
                    [pause_time |-> now, context |-> pausedContext])
         /\ active_conversations' = Del(active_conversations, session_id)
         /\ ret' = Ret("pause_conversation", session_id, "ok", None)
         /\ UNCHANGED <<now, otherVars>>

resume_conversation(session_id) ==
    IF session_id \notin DOMAIN paused_conversations
    THEN /\ ret' = Ret("resume_conversation", session_id, "rejected",
                       "not paused")
         /\ UNCHANGED <<smVars, otherVars>>
    ELSE
      LET entry == paused_conversations[session_id]
          resumed == resumed_context(entry, now)
      IN IF too_old_to_resume(entry, now)
         THEN /\ paused_conversations' = Del(paused_conversations, session_id)
              /\ ret' = Ret("resume_conversation", session_id, "rejected",
                            "too old")
              /\ UNCHANGED <<active_conversations, state_history, now, otherVars>>
         ELSE /\ active_conversations' =
                    Put(active_conversations, session_id, resumed)
              /\ paused_conversations' = Del(paused_conversations, session_id)
              /\ ret' = Ret("resume_conversation", session_id, "ok", None)
              /\ UNCHANGED <<state_history, now, otherVars>>

cleanup_old_conversations ==
    LET cutoff_time == now - max_age_hours * 3600
        to_remove == {id \in DOMAIN paused_conversations :
                        paused_conversations[id].pause_time < cutoff_time}
        kept == DOMAIN state_history \ to_remove
    IN /\ paused_conversations' =
            [id \in DOMAIN paused_conversations \ to_remove |->
                paused_conversations[id]]
       /\ state_history' =
            [id \in kept |->
                SelectSeq(state_history[id],
                          LAMBDA snapshot : snapshot.timestamp > cutoff_time)]
       /\ ret' = Ret("cleanup_old_conversations", None, "ok", None)
       /\ UNCHANGED <<active_conversations, now, otherVars>>

\* A Responder writes a field of the Context the active store holds.
agent_writes(session_id, write) ==
    /\ session_id \in DOMAIN active_conversations
    /\ active_conversations' =
            Put(active_conversations, session_id,
                ApplyUpdates(active_conversations[session_id], write))
    /\ ret' = NoCall
    /\ UNCHANGED <<paused_conversations, state_history, now, otherVars>>

\* The user message and the reply are appended to the history.
save_conversation_state(session_id, user_message) ==
    /\ session_id \in DOMAIN active_conversations
    /\ LET context == active_conversations[session_id]
       IN /\ Len(context.conversation_history) + 2 <= MaxMessages
          /\ active_conversations' =
                Put(active_conversations, session_id,
                    [context EXCEPT !.conversation_history =
                        @ \o <<user_message, AssistantMsg>>])
    /\ ret' = NoCall
    /\ UNCHANGED <<paused_conversations, state_history, now, otherVars>>

\* Time passes.
Tick(d) ==
    /\ now \div d < MaxLongTicks
    /\ now' = now + d
    /\ ret' = NoCall
    /\ UNCHANGED <<active_conversations, paused_conversations, state_history, otherVars>>

\* ----------------------------------------------------------- AgentOrchestrator
\* The orchestrator as __init__ leaves it (lines 38-58): no agents yet, no
\* agent states, and an agent_performance table built from the empty agents
\* dictionary, which therefore has no rows; nothing adds one later.  Of the
\* metrics the counter of conversations is kept; the response-time average
\* and the approval counter, which no pattern reads, are not.
NewOrchestrator ==
    [agents_initialized |-> FALSE,
     agent_states |-> EmptyDict,
     agent_performance |-> EmptyDict,
     total_conversations |-> 0]

\* ---------------------------------------------------- IntelligentAgentRouter
\* The Responders the router holds, in the order of its dictionaries
\* (lines 76-80); min, max and sorted go through them in this order.
Agents == <<"sales", "verification", "underwriting">>
AgentNames == {Agents[i] : i \in DOMAIN Agents}

\* AgentPerformanceMetrics as constructed; satisfaction is in ten-thousandths.
NewMetrics ==
    [total_requests |-> 0, successful_responses |-> 0, error_count |-> 0,
     customer_satisfaction |-> 0]

NoLoad == [a \in AgentNames |-> 0]

\* The router as __init__ leaves it (lines 74-109), its load counters at
\* agent_load.
NewRouter(agent_load) ==
    [agent_availability |-> [a \in AgentNames |-> TRUE],
     agent_load |-> agent_load,
     performance_metrics |-> [a \in AgentNames |-> NewMetrics],
     total_routings |-> 0]

Init ==
    /\ active_conversations = EmptyDict
    /\ paused_conversations = EmptyDict
    /\ state_history = EmptyDict
    /\ now = 0
    /\ ret = NoCall
    /\ lock = Free
    /\ orchestrator = NewOrchestrator
    /\ tasks = [t \in TaskIds |-> IdleTask]
    /\ chat_sessions = EmptyDict
    /\ router = NewRouter(NoLoad)

\* The stages a transition of a kind other than Forward, Backward and Jump
\* is asked for: one whose entry requirements can never be met and the two
\* outcome stages, which have none.
RestartTargets == {SALES, APPROVED, REJECTED}

\* The stage machine: one conversation, its Context filled by the Responders.
Next ==
    \/ \E id \in SessionIds : initialize_conversation(id)
    \/ \E id \in SessionIds, s \in ChatStage,
          k \in {FORWARD, BACKWARD, JUMP}, u \in ContextUpdates :
          transition_stage(id, s, k, u)
    \/ \E id \in SessionIds, s \in RestartTargets, u \in ContextUpdates :
          transition_stage(id, s, RESTART, u)
    \/ \E id \in SessionIds, w \in AgentWrites : agent_writes(id, w)
    \/ \E id \in SessionIds, m \in {UserMsg} :
          save_conversation_state(id, m)

Spec == Init /\ [][Next]_vars

\* The stores: conversations are begun, moved, paused, resumed and swept
\* while the clock advances.
StoreNext ==
    \/ \E id \in SessionIds : initialize_conversation(id)
    \/ \E id \in SessionIds, s \in ChatStage,
          k \in {FORWARD, BACKWARD, JUMP}, u \in ContextUpdates :
          transition_stage(id, s, k, u)
    \/ \E id \in SessionIds, r \in PauseReasons : pause_conversation(id, r)
    \/ \E id \in SessionIds : resume_conversation(id)
    \/ cleanup_old_conversations
    \/ Tick(LongTick)

StoreSpec == Init /\ [][StoreNext]_vars

\* One second passes.
Second ==
    /\ now < MaxHistorySeconds
    /\ now' = now + 1
    /\ ret' = NoCall
    /\ UNCHANGED <<active_conversations, paused_conversations, state_history, otherVars>>

\* A long conversation: it is begun and then moved again and again, more
\* often than its history has room for.  A Restart to APPROVED, which has no
\* entry requirements, is accepted from every stage; the requests for SALES
\* are rejected once the conversation has left GREETING.
HistoryNext ==
    \/ \E id \in SessionIds : initialize_conversation(id)
    \/ \E id \in SessionIds, s \in {SALES, APPROVED}, k \in StateTransition :
          transition_stage_upto(id, s, k, EmptyDict, MaxLongTransitions, HistoryLimit + 1)
    \/ Second

HistorySpec == Init /\ [][HistoryNext]_vars

\* A conversation that is moved forward only, within the first second, with
\* user messages that hold no frustration word: it can be moved as often as
\* the natural flow from GREETING to APPROVED takes.
ApprovalNext ==
    \/ \E id \in SessionIds : initialize_conversation(id)
    \/ \E id \in SessionIds, s \in ChatStage, u \in ContextUpdates :
          transition_stage_upto(id, s, FORWARD, u, MaxForwardTransitions, HistoryLimit + 1)
    \/ \E id \in SessionIds, w \in AgentWrites : agent_writes(id, w)
    \/ \E id \in SessionIds : save_conversation_state(id, UserMsg)

ApprovalSpec == Init /\ [][ApprovalNext]_vars

\* A conversation that is asked to move to every stage by every kind of
\* transition, while agents write to its Context and messages are saved.
ReachNext ==
    \/ \E id \in SessionIds : initialize_conversation(id)
    \/ \E id \in SessionIds, s \in ChatStage, k \in StateTransition, u \in ContextUpdates :
          transition_stage(id, s, k, u)
    \/ \E id \in SessionIds, w \in AgentWrites : agent_writes(id, w)
    \/ \E id \in SessionIds : save_conversation_state(id, UserMsg)

ReachSpec == Init /\ [][ReachNext]_vars

\* ------------------------------------------- state manager calls, by section
\* A call is a coroutine.  It is cut here at the places where the lock is
\* taken and released: the section under `async with self._lock` and the
\* section after it.  None of the awaits of the state manager suspends (the
\* lock is free whenever acquire is called, and the helper coroutines await
\* nothing that suspends), so the event loop runs a call that has started to
\* its end before it starts another: calls that are in flight together are
\* served one after the other, in either order.
Pending(t) == tasks[t].pc = "start"
Started(t) == tasks[t].pc \in {"locked", "tail"}
Quiet == \A t \in TaskIds : ~Pending(t) /\ ~Started(t)
CanRun(t) == \A x \in TaskIds \ {t} : ~Started(x)

Call(op, session_id) ==
    [IdleTask EXCEPT !.pc = "start", !.op = op, !.session_id = session_id]

Finished(t, result) ==
    [tasks EXCEPT ![t].pc = "done", ![t].result = result]

\* The transition counter a caller reads before it calls.
CountOf(session_id) ==
    IF session_id \in DOMAIN active_conversations
    THEN active_conversations[session_id].metadata.transition_count
    ELSE 0

SnapshotsOf(session_id) ==
    IF session_id \in DOMAIN state_history
    THEN Len(state_history[session_id])
    ELSE 0

\* asyncio.create_task of one state manager call, the coroutines that have
\* finished being forgotten.
create_task(t, op, session_id) ==
    /\ Quiet
    /\ op = "pause_conversation" => SnapshotsOf(session_id) < MaxSnapshots
    /\ tasks' = [x \in TaskIds |->
                    IF x = t THEN Call(op, session_id) ELSE IdleTask]
    /\ ret' = NoCall
    /\ UNCHANGED <<smVars, lock, chat_sessions, router, orchestrator>>

\* asyncio.gather of two transition_stage calls with the same arguments.
gather_transitions(session_id, new_stage, transition_type, context_updates) ==
    /\ Quiet
    /\ CountOf(session_id) + Cardinality(TaskIds) <= MaxTransitions
    /\ SnapshotsOf(session_id) + Cardinality(TaskIds) <= MaxSnapshots
    /\ tasks' =
         [t \in TaskIds |->
            [Call("transition_stage", session_id) EXCEPT
                !.new_stage = new_stage,
                !.transition_type = transition_type,
                !.context_updates = context_updates,
                !.gathered = TRUE,
                !.count_before = CountOf(session_id)]]
    /\ ret' = NoCall
    /\ UNCHANGED <<smVars, lock, chat_sessions, router, orchestrator>>

\* `async with self._lock:` entered (lines 153, 201, 569).
acquire(t) ==
    /\ Pending(t)
    /\ CanRun(t)
    /\ tasks[t].op \in {"initialize_conversation", "transition_stage",
                        "cleanup_old_conversations"}
    /\ lock = Free
    /\ lock' = t
    /\ tasks' = [tasks EXCEPT ![t].pc = "locked"]
    /\ UNCHANGED <<smVars, ret, chat_sessions, router, orchestrator>>

\* initialize_conversation, lines 153-155: the section under the lock.
initialize_locked(t) ==
    /\ tasks[t].pc = "locked"
    /\ tasks[t].op = "initialize_conversation"
    /\ lock = t
    /\ lock' = Free
    /\ tasks' = [tasks EXCEPT ![t].pc = "tail"]
    /\ UNCHANGED <<smVars, ret, chat_sessions, router, orchestrator>>

\* initialize_conversation, lines 157-187: the stores are written.
initialize_tail(t) ==
    /\ tasks[t].pc = "tail"
    /\ tasks[t].op = "initialize_conversation"
    /\ LET session_id == tasks[t].session_id
           context == NewContext(now)
       IN /\ active_conversations' =
                Put(active_conversations, session_id, context)
          /\ state_history' =
                Put(state_history, session_id,
                    create_state_snapshot(<<>>, context, now))
    /\ tasks' = Finished(t, "ok")
    /\ UNCHANGED <<paused_conversations, now, ret, lock, chat_sessions, router, orchestrator>>

\* transition_stage, lines 201-223: the section under the lock.
transition_locked(t) ==
    /\ tasks[t].pc = "locked"
    /\ tasks[t].op = "transition_stage"
    /\ lock = t
    /\ lock' = Free
    /\ LET session_id == tasks[t].session_id
           new_stage == tasks[t].new_stage
       IN IF session_id \notin DOMAIN active_conversations
          THEN /\ tasks' = Finished(t, "rejected")
               /\ UNCHANGED smVars
          ELSE
            LET context == active_conversations[session_id]
                v == validate_transition(context.current_stage, new_stage,
                                         tasks[t].transition_type, context)
            IN IF ~v.valid
               THEN /\ tasks' = Finished(t, "rejected")
                    /\ UNCHANGED smVars
               ELSE IF session_id \notin DOMAIN state_history
               THEN /\ tasks' = Finished(t, "raised")
                    /\ UNCHANGED smVars
               ELSE IF "transition_count" \notin DOMAIN context.metadata
               THEN /\ active_conversations' =
                          Put(active_conversations, session_id,
                              PerformTransition(context, new_stage, now))
                    /\ state_history' =
                          Put(state_history, session_id,
                              create_state_snapshot(state_history[session_id],
                                                    context, now))
                    /\ tasks' = Finished(t, "raised")
                    /\ UNCHANGED <<paused_conversations, now>>
               ELSE /\ active_conversations' =
                          Put(active_conversations, session_id,
                              CountedContext(context, new_stage, now))
                    /\ state_history' =
                          Put(state_history, session_id,
                              create_state_snapshot(state_history[session_id],
                                                    context, now))
                    /\ tasks' = [tasks EXCEPT ![t].pc = "tail"]
                    /\ UNCHANGED <<paused_conversations, now>>
    /\ UNCHANGED <<ret, chat_sessions, router, orchestrator>>

\* transition_stage, lines 225-239: context updates and condition checks.
\* `context` is the object the locked section fetched from the active store.
transition_tail(t) ==
    /\ tasks[t].pc = "tail"
    /\ tasks[t].op = "transition_stage"
    /\ LET session_id == tasks[t].session_id
       IN active_conversations' =
            Put(active_conversations, session_id,
                TailContext(active_conversations[session_id],
                            tasks[t].context_updates, now))
    /\ tasks' = Finished(t, "ok")
    /\ UNCHANGED <<paused_conversations, state_history, now, ret, lock,
                   chat_sessions, router, orchestrator>>

\* pause_conversation, lines 479-495: no lock is taken.
pause_unlocked(t) ==
    /\ Pending(t)
    /\ CanRun(t)
    /\ tasks[t].op = "pause_conversation"
    /\ LET session_id == tasks[t].session_id
       IN IF session_id \notin DOMAIN active_conversations
          THEN /\ tasks' = Finished(t, "rejected")
               /\ UNCHANGED smVars
          ELSE IF session_id \notin DOMAIN state_history
          THEN /\ tasks' = Finished(t, "raised")
               /\ UNCHANGED smVars
          ELSE
            LET context == active_conversations[session_id]
                pausedContext == paused_context(context, "user_request")
            IN /\ state_history' =
                     Put(state_history, session_id,
                         create_state_snapshot(state_history[session_id],
                                               context, now))
               /\ paused_conversations' =
                     Put(paused_conversations, session_id,
                         [pause_time |-> now, context |-> pausedContext])
               /\ active_conversations' =
                     Del(active_conversations, session_id)
               /\ tasks' = Finished(t, "ok")
               /\ UNCHANGED now
    /\ UNCHANGED <<ret, lock, chat_sessions, router, orchestrator>>

\* resume_conversation, lines 500-519: no lock is taken.
resume_unlocked(t) ==
    /\ Pending(t)
    /\ CanRun(t)
    /\ tasks[t].op = "resume_conversation"
    /\ LET session_id == tasks[t].session_id
       IN IF session_id \notin DOMAIN paused_conversations
          THEN /\ tasks' = Finished(t, "rejected")
               /\ UNCHANGED smVars
          ELSE
            LET entry == paused_conversations[session_id]
                resumed == resumed_context(entry, now)
            IN IF too_old_to_resume(entry, now)
               THEN /\ paused_conversations' =
                          Del(paused_conversations, session_id)
                    /\ tasks' = Finished(t, "rejected")
                    /\ UNCHANGED <<active_conversations, state_history, now>>
               ELSE /\ active_conversations' =
                          Put(active_conversations, session_id, resumed)
                    /\ paused_conversations' =
                          Del(paused_conversations, session_id)
                    /\ tasks' = Finished(t, "ok")
                    /\ UNCHANGED <<state_history, now>>
    /\ UNCHANGED <<ret, lock, chat_sessions, router, orchestrator>>

\* cleanup_old_conversations, lines 569-570: the section under the lock.
cleanup_locked(t) ==
    /\ tasks[t].pc = "locked"
    /\ tasks[t].op = "cleanup_old_conversations"
    /\ lock = t
    /\ lock' = Free
    /\ tasks' = [tasks EXCEPT ![t].pc = "tail",
                              ![t].cutoff_time = now - max_age_hours * 3600]
    /\ UNCHANGED <<smVars, ret, chat_sessions, router, orchestrator>>

\* cleanup_old_conversations, lines 572-588: the stores are swept.
cleanup_tail(t) ==
    /\ tasks[t].pc = "tail"
    /\ tasks[t].op = "cleanup_old_conversations"
    /\ LET cutoff_time == tasks[t].cutoff_time
           to_remove == {id \in DOMAIN paused_conversations :
                           paused_conversations[id].pause_time < cutoff_time}
           kept == DOMAIN state_history \ to_remove
       IN /\ paused_conversations' =
               [id \in DOMAIN paused_conversations \ to_remove |->
                   paused_conversations[id]]
          /\ state_history' =
               [id \in kept |->
                   SelectSeq(state_history[id],
                             LAMBDA snapshot : snapshot.timestamp > cutoff_time)]
    /\ tasks' = Finished(t, "ok")
    /\ UNCHANGED <<active_conversations, now, ret, lock, chat_sessions, router, orchestrator>>

\* The state manager called from coroutines of one event loop.
LockNext ==
    \/ \E id \in SessionIds,
          op \in {"initialize_conversation", "pause_conversation",
                  "resume_conversation", "cleanup_old_conversations"} :
          create_task("t1", op, id)
    \/ \E id \in SessionIds, s \in ChatStage,
          k \in {FORWARD, BACKWARD, JUMP} :
          gather_transitions(id, s, k, EmptyDict)
    \/ \E t \in TaskIds : acquire(t)
    \/ \E t \in TaskIds : initialize_locked(t)
    \/ \E t \in TaskIds : initialize_tail(t)
    \/ \E t \in TaskIds : transition_locked(t)
    \/ \E t \in TaskIds : transition_tail(t)
    \/ \E t \in TaskIds : pause_unlocked(t)
    \/ \E t \in TaskIds : resume_unlocked(t)
    \/ \E t \in TaskIds : cleanup_locked(t)
    \/ \E t \in TaskIds : cleanup_tail(t)
    \/ Quiet /\ \E id \in SessionIds,
                   w \in {[customer_phone |-> Phone1],
                          [loan_request |-> Loan1]} : agent_writes(id, w)
    \/ Quiet /\ \E id \in SessionIds : save_conversation_state(id, UserMsg)

SpecLock == Init /\ [][LockNext]_vars

\* ------------------------------------------------------- message handling
\* Part 2 models the two MasterAgent classes: the orchestrating one of
\* app/agents/advanced_master_agent.py and the routing one of
\* app/agents/master_agent.py.  Each owns a ConversationStateManager.

\* The stores of the state manager, as one value a handler's steps pass on.
Stores ==
    [active |-> active_conversations, paused |-> paused_conversations,
     history |-> state_history]

\* Messages, told apart by what the handlers test in them.
Hello == "hello"
LoanIntent == "I need a loan"
PhoneMessage == "9876543210"
RateMessage == "10%"
EmptyMessage == ""
ExitMessage == "bye"
Messages == {Hello, LoanIntent, PhoneMessage, RateMessage}

\* `"loan" in message.lower()`.
HasLoanWord(message) == message = LoanIntent
\* One of negotiation_triggers, among them "%", is in the message.
HasNegotiationTrigger(message) == message = RateMessage
\* `'%' in message or 'percent' in message.lower()`.
HasPercent(message) == message = RateMessage

\* The first match of the ten-digit mobile patterns, None without a match.
extract_phone_from_message(message) ==
    IF message = PhoneMessage THEN Phone1 ELSE None

\* AIHelper._is_gibberish: one word longer than three letters that is no
\* common word, or a text with no vowel.
is_gibberish(message) == message \in {Hello, RateMessage}

\* What can go wrong while a message is handled.
Failures == {"none", "sales", "verification", "underwriting", "persistence"}

\* A ChatResponse: the text it carries (by kind), its stage, and whether its
\* metadata is a dict (it is None unless the Orchestrator post-processed it).
Reply(kind, stage, metadata) ==
    [kind |-> kind, stage |-> stage, metadata |-> metadata]

\* The phrases of _handle_intelligent_state_transition a reply text holds.
Phrases(kind) ==
    CASE kind = "not_a_phone_number" -> {"phone number"}
      [] kind = "verified" -> {"approved"}
      [] OTHER -> {}

\* What MasterAgent.process returned: op "process", the outcome ("ok", a
\* "degraded" error-fallback Reply, or "raised") and the stage of the Reply.
ProcessRet(session_id, outcome, stage) ==
    [Ret("process", session_id, outcome, None) EXCEPT !.new_stage = stage]

\* transition_stage as a function of the stores: the stores it leaves and
\* whether it returned success ("ok"), returned failure or raised.
transition_stage_result(st, session_id, new_stage, transition_type, context_updates, t) ==
    IF session_id \notin DOMAIN st.active
    THEN [stores |-> st, outcome |-> "rejected"]
    ELSE
      LET context == st.active[session_id]
          v == validate_transition(context.current_stage, new_stage,
                                   transition_type, context)
      IN IF ~v.valid
         THEN [stores |-> st, outcome |-> "rejected"]
         ELSE IF session_id \notin DOMAIN st.history
         THEN [stores |-> st, outcome |-> "raised"]
         ELSE
           LET snapshots ==
                 Put(st.history, session_id,
                     create_state_snapshot(st.history[session_id],
                                           context, t))
           IN IF "transition_count" \notin DOMAIN context.metadata
              THEN \* line 223: KeyError after the stage was written
                   [stores |->
                        [st EXCEPT
                            !.active =
                                Put(@, session_id,
                                    PerformTransition(context, new_stage, t)),
                            !.history = snapshots],
                    outcome |-> "raised"]
              ELSE [stores |->
                        [st EXCEPT
                            !.active =
                                Put(@, session_id,
                                    TransitionedContext(context, new_stage,
                                                        context_updates, t)),
                            !.history = snapshots],
                    outcome |-> "ok"]

\* ------------------------------------------ advanced_master_agent.MasterAgent
\* _get_or_create_context: the stores once the Context of the message is in
\* the active store (found there, resumed, or initialized).
get_or_create_context(st, session_id, message, t) ==
    LET extracted == extract_phone_from_message(message)
    IN IF session_id \in DOMAIN st.active
       THEN IF st.active[session_id].customer_phone \in {None, ""}
               /\ extracted # None
            THEN [st EXCEPT !.active =
                    Put(@, session_id,
                        [st.active[session_id] EXCEPT
                            !.customer_phone = extracted])]
            ELSE st
       ELSE IF /\ session_id \in DOMAIN st.paused
               /\ t - st.paused[session_id].pause_time
                    <= ResumeWindowHours * 3600
       THEN [st EXCEPT
                !.active =
                    Put(@, session_id,
                        [st.paused[session_id].context EXCEPT !.metadata =
                            Put(Put(Put(@, "conversation_state", "active"),
                                    "last_activity", t),
                                "resume_time", t)]),
                !.paused = Del(@, session_id)]
       ELSE [active |->
                Put(st.active, session_id,
                    [NewContext(t) EXCEPT
                        !.customer_phone = extracted,
                        !.metadata =
                            Put(Put(Put(@, "user_intent_analysis", "set"),
                                    "conversation_complexity", "set"),
                                "personalization_data", "set")]),
             paused |-> Del(st.paused, session_id),
             history |->
                Put(st.history, session_id,
                    create_state_snapshot(<<>>, NewContext(t), t))]

\* The stage of the Reply process returns before it reaches the
\* Orchestrator, None when it goes on.  (No message here holds one of
\* docs_triggers or one of the words the DECISION handler looks for.)
early_reply_stage(context, message) ==
    IF HasLoanWord(message) /\ context.current_stage = GREETING
    THEN SALES
    ELSE IF HasNegotiationTrigger(message)
            /\ context.customer_phone \notin {None, ""}
    THEN SALES
    ELSE IF context.current_stage = DECISION
    THEN DECISION
    ELSE None

\* AgentOrchestrator._enrich_context: the metadata dict is replaced.
enrich_context(context, session_id, t) ==
    [context EXCEPT !.metadata =
        [conversation_id |-> session_id,
         start_time |-> t,
         agent_history |-> <<>>,
         confidence_scores |-> <<>>,
         escalation_count |-> 0,
         context_enrichments |-> <<>>]
        @@ (IF context.conversation_history # <<>>
            THEN [intent_scores |-> "set", flow_analysis |-> "set"]
            ELSE <<>>)]

\* VerificationAgent.process: the Context it leaves and its Reply.
verification_agent_process(context, message, verified) ==
    LET phone == extract_phone_from_message(message)
    IN IF phone # None
       THEN IF verified
            THEN [context |->
                    [context EXCEPT !.customer_phone = phone,
                                    !.verification_status = "True"],
                  reply |-> Reply("verified", UNDERWRITING, TRUE)]
            ELSE [context |-> context,
                  reply |-> Reply("not_found", VERIFICATION, TRUE)]
       ELSE IF is_gibberish(message)
       THEN [context |-> context,
             reply |-> Reply("not_a_phone_number", VERIFICATION, TRUE)]
       ELSE [context |-> context,
             reply |-> Reply("need_number", VERIFICATION, TRUE)]

\* orchestrate_conversation.  The pattern it is handed is a string, equal
\* to no OrchestrationPattern, so the decision tree runs: SalesAgent (which
\* finds no amount, tenure or purpose in these messages and writes nothing),
\* then VerificationAgent, whose Reply is returned.  A Responder that raises
\* ends in the fallback Reply of _handle_orchestration_error.
orchestrate_conversation(st, session_id, message, failure, verified, t) ==
    LET enriched == enrich_context(st.active[session_id], session_id, t)
        r == verification_agent_process(enriched, message, verified)
    IN IF failure \in {"sales", "verification"}
       THEN [stores |-> [st EXCEPT !.active = Put(@, session_id, enriched)],
             reply |-> Reply("technical_difficulties",
                             enriched.current_stage, FALSE)]
       ELSE [stores |-> [st EXCEPT !.active = Put(@, session_id, r.context)],
             reply |-> r.reply]

\* Lines 125-136: a rate in the message moves the conversation on to
\* UNDERWRITING; whatever transition_stage raises is dropped.
quick_progression(o, session_id, message, t) ==
    LET r == transition_stage_result(o.stores, session_id, UNDERWRITING,
                                     FORWARD, EmptyDict, t)
    IN IF HasPercent(message)
          /\ o.stores.active[session_id].current_stage
                \in {SALES, VERIFICATION}
       THEN [stores |-> r.stores,
             reply |-> IF r.outcome = "ok"
                       THEN [o.reply EXCEPT !.stage = UNDERWRITING]
                       ELSE o.reply]
       ELSE o

\* The stage the text of the Reply points to, None when it points nowhere.
\* (No Reply here says "go back" or "previous".)
indicated_stage(reply, current_stage) ==
    IF "phone number" \in Phrases(reply.kind) /\ current_stage = GREETING
    THEN SALES
    ELSE IF "loan amount" \in Phrases(reply.kind) /\ current_stage = SALES
    THEN VERIFICATION
    ELSE IF "verification" \in Phrases(reply.kind)
            /\ current_stage = VERIFICATION
    THEN UNDERWRITING
    ELSE IF "approved" \in Phrases(reply.kind)
    THEN APPROVED
    ELSE IF Phrases(reply.kind) \cap {"rejected", "not eligible"} # {}
    THEN REJECTED
    ELSE None

\* _handle_intelligent_state_transition: the stores, the Reply and whether
\* transition_stage raised.
handle_intelligent_state_transition(p, session_id, t) ==
    LET current_stage == p.stores.active[session_id].current_stage
        new_stage == indicated_stage(p.reply, current_stage)
        r == transition_stage_result(p.stores, session_id, new_stage,
                                     FORWARD, EmptyDict, t)
    IN IF new_stage # None /\ new_stage # current_stage
       THEN [stores |-> r.stores,
             reply |-> IF r.outcome = "ok"
                       THEN [p.reply EXCEPT !.stage = new_stage]
                       ELSE p.reply,
             raised |-> r.outcome = "raised"]
       ELSE [stores |-> p.stores, reply |-> p.reply, raised |-> FALSE]

\* What _serialize_context keeps of a Context.
serialize_context(context) ==
    [current_stage |-> context.current_stage,
     customer_phone |-> context.customer_phone,
     loan_request |-> context.loan_request,
     conversation_history |-> context.conversation_history,
     metadata |-> context.metadata]

\* process returns: the stores are as st has them.
process_returns(session_id, st, outcome, stage) ==
    /\ active_conversations' = st.active
    /\ paused_conversations' = st.paused
    /\ state_history' = st.history
    /\ ret' = ProcessRet(session_id, outcome, stage)
    /\ UNCHANGED <<now, lock, tasks, router, orchestrator>>

\* MasterAgent.process of advanced_master_agent.py.
advanced_master_agent_process(session_id, message, failure, verified) ==
    LET st == get_or_create_context(Stores, session_id, message, now)
        early == early_reply_stage(st.active[session_id], message)
        o == orchestrate_conversation(st, session_id, message, failure,
                                      verified, now)
        p == quick_progression(o, session_id, message, now)
        h == handle_intelligent_state_transition(p, session_id, now)
        context == h.stores.active[session_id]
        saved == [context EXCEPT !.conversation_history =
                                    @ \o <<UserMsg, AssistantMsg>>]
    IN IF early # None
       THEN /\ process_returns(session_id, st, "ok", early)
            /\ UNCHANGED chat_sessions
       ELSE IF h.raised \/ ~h.reply.metadata
       THEN \* the except clause of process: _handle_agent_error
            /\ process_returns(session_id, h.stores, "degraded", GREETING)
            /\ UNCHANGED chat_sessions
       ELSE /\ Len(context.conversation_history) + 2 <= MaxMessages
            /\ process_returns(session_id,
                               [h.stores EXCEPT
                                    !.active = Put(@, session_id, saved)],
                               "ok", h.reply.stage)
            /\ chat_sessions' =
                    IF failure = "persistence"
                    THEN chat_sessions
                    ELSE Put(chat_sessions, session_id,
                             serialize_context(saved))

\* The orchestrating MasterAgent serving one conversation that the pause
\* endpoint may pause, while the clock advances.
AdvNext ==
    \/ \E id \in SessionIds, m \in Messages,
          f \in {"none", "sales", "verification", "persistence"},
          v \in BOOLEAN :
          advanced_master_agent_process(id, m, f, v)
    \/ \E id \in SessionIds, r \in PauseReasons : pause_conversation(id, r)
    \/ Tick(LongTick)

AdvSpec == Init /\ [][AdvNext]_vars

\* --------------------------------------------------- master_agent.MasterAgent
\* The ids uuid4 hands out.
Uuids == {"u1", "u2", "u3"}

\* The Context _get_or_create_session builds for a new session.
NewSessionContext ==
    [current_stage |-> GREETING,
     customer_phone |-> None,
     loan_request |-> NoLoan,
     verification_status |-> None,
     conversation_history |-> <<>>,
     metadata |-> EmptyDict]

\* The stages a Reply of SalesAgent.process can carry.
sales_agent_stages == {SALES, VERIFICATION}
\* The stages a Reply of VerificationAgent.process can carry.
verification_agent_stages == {VERIFICATION, UNDERWRITING}
\* The stages a Reply of UnderwritingAgent.process can carry.
underwriting_agent_stages(context) ==
    IF context.customer_phone \in {None, ""}
    THEN {VERIFICATION}
    ELSE {COMPLETED, SALARY_SLIP, REJECTED}

\* The Context once VerificationAgent verified the phone number and line
\* 274 moved the stage on.
verified_context(context) ==
    [context EXCEPT !.customer_phone = Phone1,
                    !.verification_status = "True",
                    !.current_stage = UNDERWRITING]

\* The Responders are the environment of process: the stages of the Replies
\* the Responders awaited at a stage may give, as <<first, second>> (None
\* where no Responder is awaited).  At VERIFICATION a Reply of UNDERWRITING
\* that asks for no input has UnderwritingAgent run on the spot.
responder_replies(context) ==
    CASE context.current_stage = SALES ->
            {<<s, None>> : s \in sales_agent_stages}
      [] context.current_stage = VERIFICATION ->
            {<<VERIFICATION, None>>}
            \cup {<<UNDERWRITING, u>> :
                    u \in underwriting_agent_stages(verified_context(context))}
      [] context.current_stage = UNDERWRITING ->
            {<<None, u>> : u \in underwriting_agent_stages(context)}
      [] OTHER -> {<<None, None>>}

\* Lines 264-284: the Reply of the handler the stage routes to, with the
\* Context it leaves; `raised` when a Responder it awaits raises.
\* SalesAgent answers VERIFICATION once the loan request is complete.
route_by_stage(context, failure, first, second) ==
    LET stage == context.current_stage
    IN CASE stage = GREETING ->
              [raised |-> FALSE, stage |-> SALES, context |-> context]
         [] stage = SALES ->
              [raised |-> failure = "sales",
               stage |-> first,
               context |-> IF first = VERIFICATION
                           THEN [context EXCEPT !.loan_request = Loan1]
                           ELSE context]
         [] stage = VERIFICATION ->
              IF failure = "verification"
              THEN [raised |-> TRUE, stage |-> None, context |-> context]
              ELSE IF first = UNDERWRITING
              THEN [raised |-> failure = "underwriting",
                    stage |-> second,
                    context |-> verified_context(context)]
              ELSE [raised |-> FALSE, stage |-> first, context |-> context]
         [] stage = UNDERWRITING ->
              [raised |-> failure = "underwriting",
               stage |-> second, context |-> context]
         [] stage = SALARY_SLIP ->
              [raised |-> FALSE, stage |-> SALARY_SLIP, context |-> context]
         [] OTHER ->
              [raised |-> FALSE, stage |-> COMPLETED, context |-> context]

\* A message that names a tenure: "month" is one of the tenure_keywords and
\* _extract_number reads 36 from it; it holds none of the amount_keywords.
TenureMessage == "36 months"
NewTenure == 36

\* _handle_mid_conversation_update, lines 523-650: the tenure the message
\* asks for as <<tenure>>, <<>> when the message asks for no correction
\* (there is no loan request yet, the message names no tenure, or names the
\* one already set).
requested_tenure(message, context) ==
    IF context.loan_request = NoLoan
    THEN <<>>
    ELSE IF message = TenureMessage
            /\ context.loan_request[1].tenure # NewTenure
         THEN <<NewTenure>>
         ELSE <<>>

\* Lines 644-651: the stage a correction rolls the conversation back to.
rollback_stage(current_stage) ==
    CASE current_stage = VERIFICATION -> SALES
      [] current_stage = UNDERWRITING -> VERIFICATION
      [] current_stage = DECISION -> UNDERWRITING
      [] OTHER -> current_stage

\* Lines 653-674: the Context once the correction is applied; its stage is
\* set to the rollback stage whatever transition_stage answered.
corrected_context(context, tenure) ==
    [context EXCEPT
        !.loan_request = <<[@[1] EXCEPT !.tenure = tenure]>>,
        !.current_stage = rollback_stage(context.current_stage)]

\* Lines 249-262: the stages of the Reply that resumes the flow after a
\* correction, from the Responder of the stage with an empty message.
resume_flow_stages(context) ==
    CASE context.current_stage = SALES -> sales_agent_stages
      [] context.current_stage = VERIFICATION -> {VERIFICATION}
      [] context.current_stage = UNDERWRITING ->
            underwriting_agent_stages(context)
      [] OTHER -> {context.current_stage}

\* The Responder awaited at lines 249-256 raises.
resume_flow_raises(context, failure) ==
    \/ context.current_stage = SALES /\ failure = "sales"
    \/ context.current_stage = VERIFICATION /\ failure = "verification"
    \/ context.current_stage = UNDERWRITING /\ failure = "underwriting"

\* _get_or_create_session, lines 476-513: the stores once a new session
\* was initialized under id; a session found in the table changes nothing.
session_stores(known, id, t) ==
    IF known
    THEN Stores
    ELSE [Stores EXCEPT
            !.active = Put(@, id, NewContext(t)),
            !.history = Put(@, id,
                            create_state_snapshot(<<>>, NewContext(t), t))]

\* MasterAgent.process of master_agent.py.
master_agent_process(session_id, message, failure) ==
    LET known == session_id \in DOMAIN chat_sessions
        unused == Uuids \ DOMAIN active_conversations
        id == IF known THEN session_id ELSE CHOOSE u \in unused : TRUE
        context == IF known THEN chat_sessions[id] ELSE NewSessionContext
        st == session_stores(known, id, now)
        tenure == requested_tenure(message, context)
    IN /\ known \/ unused # {}
       /\ IF message = EmptyMessage
          THEN /\ ret' = ProcessRet(id, "ok", context.current_stage)
               /\ active_conversations' = st.active
               /\ state_history' = st.history
               /\ UNCHANGED chat_sessions
          ELSE IF message = ExitMessage
          THEN /\ ret' = ProcessRet(id, "ok", COMPLETED)
               /\ active_conversations' = st.active
               /\ state_history' = st.history
               /\ UNCHANGED chat_sessions
          ELSE IF tenure # <<>>
          THEN \* lines 205-262: a mid-conversation correction
               LET heard == [context EXCEPT
                                !.conversation_history = @ \o <<UserMsg>>]
                   rollback ==
                     transition_stage_result(
                        st, id, rollback_stage(context.current_stage),
                        BACKWARD, EmptyDict, now)
                   saved == corrected_context(heard, tenure[1])
               IN /\ Len(heard.conversation_history) <= MaxSessionMessages
                  /\ rollback.outcome # "raised"
                  /\ active_conversations' = rollback.stores.active
                  /\ state_history' = rollback.stores.history
                  /\ chat_sessions' =
                        IF failure = "persistence"
                        THEN chat_sessions
                        ELSE Put(chat_sessions, id, saved)
                  /\ IF resume_flow_raises(saved, failure)
                     THEN ret' = ProcessRet(id, "raised", None)
                     ELSE \E stage \in resume_flow_stages(saved) :
                            ret' = ProcessRet(id, "ok", stage)
          ELSE \E replies \in responder_replies(context) :
                LET r == route_by_stage(context, failure,
                                        replies[1], replies[2])
                    saved == [r.context EXCEPT
                                !.current_stage = r.stage,
                                !.conversation_history =
                                    @ \o <<UserMsg, AssistantMsg>>]
                IN /\ active_conversations' = st.active
                   /\ state_history' = st.history
                   /\ IF r.raised
                      THEN \* nothing catches what the Responder raised
                           /\ ret' = ProcessRet(id, "raised", None)
                           /\ UNCHANGED chat_sessions
                      ELSE /\ Len(context.conversation_history) + 2
                                   <= MaxSessionMessages
                           /\ ret' = ProcessRet(id, "ok", r.stage)
                           /\ chat_sessions' =
                                   IF failure = "persistence"
                                   THEN chat_sessions
                                   ELSE Put(chat_sessions, id, saved)
       /\ UNCHANGED <<paused_conversations, now, lock, tasks, router, orchestrator>>

\* The routing MasterAgent serving the sessions of its table.
BasicNext ==
    \/ \E id \in Uuids \cup {None},
          m \in {EmptyMessage, ExitMessage, Hello, TenureMessage},
          f \in Failures : master_agent_process(id, m, f)
    \/ Tick(LongTick)

BasicSpec == Init /\ [][BasicNext]_vars

\* ------------------------------------------------- SalesAgent, word by word
\* The messages of a conversation that states a loan request and corrects
\* it.  A message is read as its tokens, the lower-cased words and numerals
\* between its blanks and commas; a numeral carries its value.
Word(text) == [text |-> text, numeral |-> FALSE, value |-> 0]
Numeral(text, value) == [text |-> text, numeral |-> TRUE, value |-> value]

\* int("9876543210") and float("9876543210") are beyond the integers of the
\* model.  The largest of them stands for the value: every range check of
\* the code reads both alike, and no handler stores the value.
PhoneNumberValue == 2147483647

Hi == "hi"
RequestMessage == "I need 5 lakh for 24 months, personal"
PurposeMessage == "personal"
LongTenureMessage == "100 months"
LargeAmountMessage == "I need 90 lakh"

tokens(message) ==
    CASE message = Hi -> <<Word("hi")>>
      [] message = PhoneMessage ->
            <<Numeral(PhoneMessage, PhoneNumberValue)>>
      [] message = RequestMessage ->
            <<Word("i"), Word("need"), Numeral("5", 5), Word("lakh"),
              Word("for"), Numeral("24", 24), Word("months"),
              Word("personal")>>
      [] message = PurposeMessage -> <<Word("personal")>>
      [] message = LongTenureMessage -> <<Numeral("100", 100), Word("months")>>
      [] message = LargeAmountMessage ->
            <<Word("i"), Word("need"), Numeral("90", 90), Word("lakh")>>
      [] OTHER -> <<>>

\* `keyword in word` of Python, as <<keyword, word>>, for the words of the
\* messages and the keywords the handlers look for; no other keyword of
\* theirs is within one of the words.
Within ==
    {<<"k", "lakh">>, <<"l", "lakh">>, <<"lakh", "lakh">>,
     <<"mon", "months">>, <<"month", "months">>, <<"months", "months">>,
     <<"need", "need">>,
     <<"l", "personal">>, <<"personal", "personal">>, <<"rs", "personal">>}

\* The pairs of Within where the word begins with the keyword.
StartsWith ==
    {<<"l", "lakh">>, <<"lakh", "lakh">>,
     <<"mon", "months">>, <<"month", "months">>, <<"months", "months">>,
     <<"need", "need">>, <<"personal", "personal">>}

\* any(keyword in message for keyword in keywords)
contains(message, keywords) ==
    \E i \in DOMAIN tokens(message), keyword \in keywords :
        <<keyword, tokens(message)[i].text>> \in Within

\* The places a pattern (\d+)\s*(?:a|b|...) matches at: the numerals that a
\* word beginning with one of the alternatives follows.
numerals_before(message, alternatives) ==
    LET t == tokens(message)
    IN {i \in DOMAIN t :
            /\ t[i].numeral
            /\ i + 1 \in DOMAIN t
            /\ \E a \in alternatives : <<a, t[i + 1].text>> \in StartsWith}

\* The places a pattern (\d+)\s*a\b matches at: the word is the alternative.
numerals_before_word(message, word) ==
    LET t == tokens(message)
    IN {i \in DOMAIN t :
            t[i].numeral /\ i + 1 \in DOMAIN t /\ t[i + 1].text = word}

\* The rupee sign, and the places a pattern a\s*(\d+) matches at.
RupeeSign == "U+20B9"
numerals_after_word(message, word) ==
    LET t == tokens(message)
    IN {i \in DOMAIN t :
            t[i].numeral /\ i - 1 \in DOMAIN t /\ t[i - 1].text = word}

\* The places (\d+) matches at, and those (\d{4,}) matches at.
numerals(message) == {i \in DOMAIN tokens(message) : tokens(message)[i].numeral}
long_numerals(message) ==
    {i \in numerals(message) : tokens(message)[i].value >= 1000}

\* match.group(1) of re.search: the leftmost match, as a number.
group(message, places) ==
    tokens(message)[CHOOSE i \in places : \A j \in places : i <= j].value

\* `for pattern in patterns: match = re.search(...); if match:` - the number
\* of the first pattern that matches with its place in the list, as
\* <<number, place>>; <<>> when none matches.
first_match(message, matches) ==
    LET matching == {n \in DOMAIN matches : matches[n] # {}}
    IN IF matching = {}
       THEN <<>>
       ELSE <<group(message,
                    matches[CHOOSE n \in matching :
                                \A k \in matching : n <= k]),
              CHOOSE n \in matching : \A k \in matching : n <= k>>

\* master_agent._extract_number, as <<number>>, <<>> for None: a pattern
\* brings its multiplier.
multiplied(match, multipliers) ==
    IF match = <<>> THEN <<>> ELSE <<match[1] * multipliers[match[2]]>>

extract_number(message) ==
    multiplied(
        first_match(message,
            <<numerals_before(message, {"crore", "crores", "cr"}),
              numerals_before(message, {"lakh", "lakhs", "lac", "lacs", "l"}),
              numerals_before(message, {"k"}),
              numerals(message)>>),
        <<10000000, 100000, 1000, 1>>)

\* SalesAgent._extract_amount: the first pattern that matches gives the
\* number, the words of the whole message give the multiplier.
amount_of(message, match) ==
    IF match = <<>>
    THEN <<>>
    ELSE IF contains(message, {"lakh"})
    THEN <<match[1] * 100000>>
    ELSE IF contains(message, {"crore"})
    THEN <<match[1] * 10000000>>
    ELSE IF contains(message, {"k"}) /\ match[1] < 1000
    THEN <<match[1] * 1000>>
    ELSE <<match[1]>>

extract_amount(message) ==
    amount_of(message,
        first_match(message,
            <<numerals_before(message, {"lakh"}),
              numerals_before(message, {"crore"}),
              numerals_before_word(message, "k"),
              numerals_after_word(message, RupeeSign),
              long_numerals(message)>>))

\* SalesAgent._extract_tenure, in months.
tenure_of(message, match) ==
    IF match = <<>>
    THEN <<>>
    ELSE IF contains(message, {"year", "yr"})
    THEN <<match[1] * 12>>
    ELSE <<match[1]>>

extract_tenure(message) ==
    tenure_of(message,
        first_match(message,
            <<numerals_before(message, {"month"}),
              numerals_before(message, {"year"}),
              numerals_before(message, {"yr"}),
              numerals_before(message, {"mon"}),
              numerals(message)>>))

\* SalesAgent.loan_purposes: the purpose a number of the menu selects.
loan_purposes ==
    <<"personal", "home_improvement", "education", "medical", "business",
      "wedding", "travel", "debt_consolidation">>

\* The purpose_keywords of _extract_purpose, in the order of the dict.
purpose_keywords ==
    <<{"personal", "general", "miscellaneous"},
      {"home", "house", "renovation", "repair", "improvement"},
      {"education", "study", "course", "college", "school"},
      {"medical", "health", "hospital", "treatment", "medicine"},
      {"business", "startup", "investment", "work", "office"},
      {"wedding", "marriage", "shaadi", "ceremony"},
      {"travel", "vacation", "trip", "tour", "holiday"},
      {"debt", "consolidation", "loan closure", "payoff"}>>

\* SalesAgent._extract_purpose: a number of the menu anywhere in the message
\* selects before any keyword is looked for.
extract_purpose(message) ==
    LET t == tokens(message)
        selected == {n \in DOMAIN loan_purposes :
                        \E i \in numerals(message) : t[i].value = n}
        named == {n \in DOMAIN purpose_keywords :
                        contains(message, purpose_keywords[n])}
    IN IF selected # {}
       THEN loan_purposes[CHOOSE n \in selected : \A m \in selected : n <= m]
       ELSE IF named # {}
       THEN loan_purposes[CHOOSE n \in named : \A m \in named : n <= m]
       ELSE None

\* SalesAgent._detect_typo: a misspelt lakh or crore is a word of the message.
detect_typo(message) ==
    \E i \in DOMAIN tokens(message) :
        tokens(message)[i].text \in
            {"laksh", "laskh", "laks", "lacs", "cror", "crors"}

\* LoanRequest(amount=amount): the fields not given are None.  A number
\* that is None is kept as 0; the handlers test both with `not`.
LoanRequest(amount) == <<[amount |-> amount, tenure |-> 0, purpose |-> None]>>

\* The validators of LoanRequest, which pydantic runs when the object is
\* constructed and never when a field is assigned.
validate_amount(v) == v = 0 \/ (v >= 10000 /\ v <= 5000000)
validate_tenure(v) == v = 0 \/ (v >= 6 /\ v <= 84)
validates(loan_request) ==
    IF loan_request = NoLoan
    THEN TRUE
    ELSE /\ validate_amount(loan_request[1].amount)
         /\ validate_tenure(loan_request[1].tenure)

\* What AIHelper.extract_loan_amount answers for a message in which
\* _extract_amount found no amount: None (no amount, no API key, or the
\* call failed) or the amount the language model names.
AIAmounts == {<<>>, <<50000>>}

\* A Reply of SalesAgent and the Context it leaves.
SalesReply(stage, context) == [stage |-> stage, context |-> context]

\* context.loan_request once the amount is stored, lines 134-137.
with_amount(loan_request, amount) ==
    IF loan_request = NoLoan
    THEN LoanRequest(amount)
    ELSE <<[loan_request[1] EXCEPT !.amount = amount]>>

\* SalesAgent._collect_loan_amount, lines 95-196, once the amount is read.
amount_collected(message, context, amount) ==
    IF amount = <<>>
    THEN SalesReply(SALES, context)
    ELSE IF amount[1] = 0 \/ amount[1] < 10000 \/ amount[1] > 5000000
    THEN SalesReply(SALES, context)
    ELSE IF detect_typo(message)
    THEN SalesReply(SALES,
            [context EXCEPT
                !.metadata = Put(@, "pending_amount", amount[1])])
    ELSE SalesReply(SALES,
            [context EXCEPT !.loan_request = with_amount(@, amount[1])])

\* Lines 89-92: AIHelper is asked only when _extract_amount found nothing.
amount_read(extracted, ai) == IF extracted # <<>> THEN extracted ELSE ai

collect_loan_amount(message, context, ai) ==
    amount_collected(message, context,
                     amount_read(extract_amount(message), ai))

\* SalesAgent._collect_tenure, once the tenure is read.
tenure_collected(context, tenure) ==
    IF tenure = <<>>
    THEN SalesReply(SALES, context)
    ELSE IF tenure[1] = 0 \/ tenure[1] < 6 \/ tenure[1] > 84
    THEN SalesReply(SALES, context)
    ELSE SalesReply(SALES,
            [context EXCEPT
                !.loan_request = <<[@[1] EXCEPT !.tenure = tenure[1]]>>])

collect_tenure(message, context) ==
    tenure_collected(context, extract_tenure(message))

\* SalesAgent._collect_purpose, once the purpose is read.
purpose_collected(context, purpose) ==
    IF purpose = None
    THEN SalesReply(SALES, context)
    ELSE SalesReply(VERIFICATION,
            [context EXCEPT
                !.loan_request = <<[@[1] EXCEPT !.purpose = purpose]>>])

collect_purpose(message, context) ==
    purpose_collected(context, extract_purpose(message))

\* The words that confirm an amount asked back after a typo.
confirmations ==
    {"yes", "yeah", "yup", "correct", "right", "ok", "okay", "confirm"}

\* `not context.loan_request or not context.loan_request.amount`
lacks_amount(loan_request) ==
    IF loan_request = NoLoan THEN TRUE ELSE loan_request[1].amount = 0

\* SalesAgent.process: it asks for the amount, then the tenure, then the
\* purpose, one per message, and answers VERIFICATION once it has all three.
sales_agent_process(message, context, ai) ==
    IF lacks_amount(context.loan_request)
    THEN IF /\ message \in confirmations
            /\ "pending_amount" \in DOMAIN context.metadata
         THEN SalesReply(SALES,
                 [context EXCEPT
                     !.loan_request =
                         with_amount(@, context.metadata.pending_amount),
                     !.metadata = Del(@, "pending_amount")])
         ELSE collect_loan_amount(message, context, ai)
    ELSE IF context.loan_request[1].tenure = 0
    THEN collect_tenure(message, context)
    ELSE IF context.loan_request[1].purpose = None
    THEN collect_purpose(message, context)
    ELSE SalesReply(VERIFICATION, context)

\* VerificationAgent._extract_phone: the message holds a numeral of ten
\* digits that begins with 6, 7, 8 or 9.
holds_phone(message) ==
    \E i \in numerals(message) : tokens(message)[i].text = PhoneMessage

\* The keywords of _handle_mid_conversation_update.
tenure_keywords ==
    {"month", "months", "minths", "monts", "mnths", "mth", "mths",
     "year", "years", "yrs", "yr", "yeras",
     "change tenure", "change loan tenure", "update tenure", "modify tenure"}
year_keywords == {"year", "years", "yrs", "yr", "yeras"}
amount_keywords ==
    {"loan", "amount", RupeeSign, "rs", "rupees", "lakh", "lakhs", "crore",
     "crores", "thousand", "k", "l", "cr", "need", "want", "require"}

\* purpose_map, in the order of the dict, as <<keyword, purpose>>.
purpose_map ==
    <<<<"wedding", "wedding">>, <<"marriage", "wedding">>,
      <<"shaadi", "wedding">>, <<"education", "education">>,
      <<"study", "education">>, <<"edu", "education">>,
      <<"business", "business">>, <<"startup", "business">>,
      <<"medical", "medical">>, <<"health", "medical">>,
      <<"hospital", "medical">>, <<"travel", "travel">>,
      <<"vacation", "travel">>, <<"trip", "travel">>,
      <<"personal", "personal">>, <<"home", "home_improvement">>,
      <<"house", "home_improvement">>, <<"renovation", "home_improvement">>,
      <<"repair", "home_improvement">>, <<"improvement", "home_improvement">>,
      <<"debt", "debt_consolidation">>,
      <<"consolidation", "debt_consolidation">>,
      <<"loan closure", "debt_consolidation">>,
      <<"payoff", "debt_consolidation">>>>

\* The corrections a message asks for, lines 548-640: each as <<value>>,
\* <<>> where the message asks for none.  A tenure or an amount is taken as
\* _extract_number reads it, whatever the limits of LoanRequest.
No_updates == [loan_amount |-> <<>>, loan_tenure |-> <<>>, loan_purpose |-> <<>>]

mid_conversation_updates(message, context) ==
    IF context.loan_request = NoLoan
    THEN No_updates
    ELSE IF context.current_stage = VERIFICATION /\ holds_phone(message)
    THEN No_updates
    ELSE
      LET loan_request == context.loan_request[1]
          num == extract_number(message)
          new_tenure == IF contains(message, year_keywords)
                        THEN num[1] * 12
                        ELSE num[1]
          differing == {n \in DOMAIN purpose_map :
                            /\ contains(message, {purpose_map[n][1]})
                            /\ purpose_map[n][2] # loan_request.purpose}
      IN [loan_tenure |->
            IF /\ loan_request.tenure # 0
               /\ contains(message, tenure_keywords)
               /\ num # <<>>
               /\ num[1] # 0
               /\ new_tenure # loan_request.tenure
            THEN <<new_tenure>>
            ELSE <<>>,
          loan_amount |->
            IF /\ loan_request.amount # 0
               /\ contains(message, amount_keywords)
               /\ num # <<>>
               /\ num[1] >= 10000
               /\ num[1] # loan_request.amount
            THEN num
            ELSE <<>>,
          loan_purpose |->
            IF loan_request.purpose # None /\ differing # {}
            THEN <<purpose_map[CHOOSE n \in differing :
                                 \A m \in differing : n <= m][2]>>
            ELSE <<>>]

\* Lines 642-674: the Context once the corrections are assigned and the
\* stage is rolled back.
updated_context(context, updates) ==
    [context EXCEPT
        !.loan_request =
            <<[amount |-> IF updates.loan_amount # <<>>
                          THEN updates.loan_amount[1] ELSE @[1].amount,
               tenure |-> IF updates.loan_tenure # <<>>
                          THEN updates.loan_tenure[1] ELSE @[1].tenure,
               purpose |-> IF updates.loan_purpose # <<>>
                           THEN updates.loan_purpose[1] ELSE @[1].purpose]>>,
        !.current_stage = rollback_stage(context.current_stage)]

\* The entries process appends to conversation_history.
Said(message) == [sender |-> UserMsg, message |-> message]
Answered(stage) == [sender |-> AssistantMsg, message |-> stage]

\* The messages of every session of the table.
RECURSIVE session_messages(_)
session_messages(ids) ==
    IF ids = {}
    THEN 0
    ELSE LET id == CHOOSE u \in ids : TRUE
         IN Len(chat_sessions[id].conversation_history)
                + session_messages(ids \ {id})

\* Lines 249-262: the stages of the Reply that resumes the flow after a
\* correction; SalesAgent is given an empty message.
resumed_stages(context) ==
    IF context.current_stage = SALES
    THEN {sales_agent_process(EmptyMessage, context, <<>>).stage}
    ELSE resume_flow_stages(context)

\* The Replies the Responders past SALES may give to a message:
\* VerificationAgent verifies only a phone number it finds in the message.
replies_to(message, context) ==
    {replies \in responder_replies(context) :
        (context.current_stage = VERIFICATION /\ replies[1] = UNDERWRITING)
            => holds_phone(message)}

\* Lines 189-262 of process: a mid-conversation correction.  The Context is
\* saved with what the message asked for, the flow resumes from the
\* Responder of the stage rolled back to, and the Context is saved again.
correct(failure, id, rollback, saved) ==
    /\ active_conversations' = rollback.stores.active
    /\ state_history' = rollback.stores.history
    /\ IF rollback.outcome = "raised"
       THEN /\ ret' = ProcessRet(id, "raised", None)
            /\ UNCHANGED chat_sessions
       ELSE /\ chat_sessions' =
                    IF failure = "persistence"
                    THEN chat_sessions
                    ELSE Put(chat_sessions, id, saved)
            /\ IF resume_flow_raises(saved, failure)
               THEN ret' = ProcessRet(id, "raised", None)
               ELSE \E stage \in resumed_stages(saved) :
                        ret' = ProcessRet(id, "ok", stage)

\* Lines 264-284: the Reply of the handler the stage routes to.
routed(message, failure, ai, heard, replies) ==
    CASE heard.current_stage = GREETING ->
            [raised |-> FALSE, stage |-> SALES, context |-> heard]
      [] heard.current_stage = SALES ->
            [raised |-> failure = "sales"]
                @@ sales_agent_process(message, heard, ai)
      [] OTHER ->
            route_by_stage(heard, failure, replies[1], replies[2])

\* Lines 286-311: the stage of the Reply becomes the stage of the Context,
\* the Reply is appended to the history and the Context is saved.
reply(failure, id, st, r, messages) ==
    /\ active_conversations' = st.active
    /\ state_history' = st.history
    /\ IF r.raised
       THEN \* nothing catches what the Responder raised
            /\ ret' = ProcessRet(id, "raised", None)
            /\ UNCHANGED chat_sessions
       ELSE /\ messages + 2 <= MaxSalesMessages
            /\ ret' = ProcessRet(id, "ok", r.stage)
            /\ chat_sessions' =
                    IF failure = "persistence"
                    THEN chat_sessions
                    ELSE Put(chat_sessions, id,
                             [r.context EXCEPT
                                !.current_stage = r.stage,
                                !.conversation_history =
                                    @ \o <<Answered(r.stage)>>])

\* Lines 128-311, once the session is loaded or created and the message is
\* appended to its history.
handle(message, failure, ai, id, st, heard, updates, messages) ==
    IF updates # No_updates
    THEN /\ messages + 1 <= MaxSalesMessages
         /\ correct(failure, id,
                    transition_stage_result(
                        st, id, rollback_stage(heard.current_stage),
                        BACKWARD, EmptyDict, now),
                    updated_context(heard, updates))
    ELSE \E replies \in replies_to(message, heard) :
            reply(failure, id, st,
                  routed(message, failure, ai, heard, replies), messages)

\* _get_or_create_session, lines 476-513: the session saved under the id
\* is loaded when its Context still validates.
loads(session_id) ==
    IF session_id \in DOMAIN chat_sessions
    THEN validates(chat_sessions[session_id].loan_request)
    ELSE FALSE

\* The Context process works on once it appended the message.
hears(context, message) ==
    [context EXCEPT !.conversation_history = @ \o <<Said(message)>>]

\* MasterAgent.process of master_agent.py, reading the message word by
\* word, for the session the id names.  _get_or_create_session starts a
\* new session when it finds none under the id, and when the saved Context
\* no longer validates.
process_session(message, failure, ai, id, loaded, heard) ==
    /\ handle(message, failure, ai, id, session_stores(loaded, id, now),
              heard, mid_conversation_updates(message, heard),
              session_messages(DOMAIN chat_sessions))
    /\ UNCHANGED <<paused_conversations, now, lock, tasks, router, orchestrator>>

\* The client sends the session id of the Reply it got last.
process(message, failure, ai) ==
    IF loads(ret.id)
    THEN process_session(message, failure, ai, ret.id, TRUE,
                         hears(chat_sessions[ret.id], message))
    ELSE /\ Uuids \ DOMAIN active_conversations # {}
         /\ process_session(message, failure, ai,
                            CHOOSE u \in Uuids \ DOMAIN active_conversations : TRUE,
                            FALSE, hears(NewSessionContext, message))

\* One client in conversation with the routing MasterAgent.
SalesMessages ==
    {Hi, PhoneMessage, RequestMessage, PurposeMessage, LongTenureMessage,
     LargeAmountMessage}

SalesNext ==
    \E m \in SalesMessages, f \in Failures, ai \in AIAmounts :
        process(m, f, ai)

SalesSpec == Init /\ [][SalesNext]_vars

\* ------------------------------------------------------- UnderwritingAgent
\* Money is in rupees.  Rates are kept as integers: an annual rate in
\* hundredths of a percent (12.63% is 1263), a monthly rate and a growth
\* factor in hundred-millionths (1.0525% a month is 1052500, the factor 1 is
\* Unit).  Every division rounds down where the code keeps a float, which
\* leaves the EMI of the code rounded down to a rupee (on loans of millions,
\* up to a rupee less).
Unit == 10000 * 10000

\* a * b of two fractions, in hundred-millionths.  The product is formed
\* from the halves of the factors so that no part leaves 32 bits.
times(a, b) ==
    LET ah == a \div 10000
        al == a % 10000
        bh == b \div 10000
        bl == b % 10000
    IN ah * bh + (ah * bl + al * bh + (al * bl) \div 10000) \div 10000

\* Long division by a divisor below 2^31 / 10: the quotient so far, the
\* remainder, and the decimal places still to be produced.
RECURSIVE quotient(_, _, _, _)
quotient(q, remainder, c, places) ==
    IF places = 0
    THEN q
    ELSE quotient(q * 10 + (remainder * 10) \div c, (remainder * 10) % c,
                  c, places - 1)

\* a / c in hundred-millionths, of two numbers in the same unit.
divided(a, c) == quotient(a \div c, a % c, c, 8)

\* INTEREST_RATE_BY_PURPOSE.get(purpose, base_rate), lines 10-19 and 71.
INTEREST_RATE_BY_PURPOSE(purpose, base_rate) ==
    CASE purpose = "personal" -> 1263
      [] purpose = "education" -> 830
      [] OTHER -> base_rate

\* interest_rate / (12 * 100), line 72.
monthly_rate(interest_rate) == (interest_rate * 10000) \div 12

\* (1 + monthly_rate) ** tenure, line 74, by repeated squaring.
RECURSIVE growth(_, _)
growth(rate, tenure) ==
    IF tenure = 0
    THEN Unit
    ELSE IF tenure % 2 = 0
    THEN LET half == growth(rate, tenure \div 2)
         IN times(half, half)
    ELSE times(growth(rate, tenure - 1), Unit + rate)

\* monthly_rate * (1 + monthly_rate) ** tenure
\*    / ((1 + monthly_rate) ** tenure - 1): the EMI of a loan of one rupee.
emi_factor(rate, tenure) ==
    LET g == growth(rate, tenure)
    IN divided(times(rate, g), g - Unit)

\* emi_of at a flat rate: a month's interest on the whole loan and an equal
\* share of the principal.
emi_of_flat(loan_amount, rate, tenure) ==
    times(loan_amount, rate) + loan_amount \div tenure

\* The EMI of line 74.
emi_of(loan_amount, rate, tenure) ==
    times(loan_amount, emi_factor(rate, tenure))

\* The UnderwritingResult the rules build; reason is the rule that decided.
UnderwritingResult(approved, loan_amount, emi, interest_rate, tenure, reason, requires_salary_slip) ==
    [approved |-> approved, loan_amount |-> loan_amount, emi |-> emi,
     interest_rate |-> interest_rate, tenure |-> tenure, reason |-> reason,
     requires_salary_slip |-> requires_salary_slip]

\* _evaluate_loan with rule 3 of line 89 stopping short of twice the limit.
evaluate_loan_below_twice_limit(context, base_rate) ==
    LET loan_amount == context.loan_request[1].amount
        tenure == context.loan_request[1].tenure
        interest_rate ==
            INTEREST_RATE_BY_PURPOSE(context.loan_request[1].purpose, base_rate)
        emi == emi_of(loan_amount, monthly_rate(interest_rate), tenure)
    IN IF context.credit_score < 700
       THEN UnderwritingResult(FALSE, loan_amount, 0, base_rate, tenure,
                               "below minimum score", FALSE)
       ELSE IF loan_amount <= context.pre_approved_limit
       THEN UnderwritingResult(TRUE, loan_amount, emi, interest_rate, tenure,
                               "within pre-approved limit", FALSE)
       ELSE IF loan_amount < 2 * context.pre_approved_limit
       THEN UnderwritingResult(FALSE, loan_amount, emi, interest_rate, tenure,
                               "salary slip required", TRUE)
       ELSE UnderwritingResult(FALSE, loan_amount, emi, interest_rate, tenure,
                               "exceeds maximum limit", FALSE)

\* _evaluate_loan, lines 52-112.
evaluate_loan(context, base_rate) ==
    LET loan_amount == context.loan_request[1].amount
        tenure == context.loan_request[1].tenure
        interest_rate ==
            INTEREST_RATE_BY_PURPOSE(context.loan_request[1].purpose, base_rate)
        emi == emi_of(loan_amount, monthly_rate(interest_rate), tenure)
    IN IF context.credit_score < 700
       THEN UnderwritingResult(FALSE, loan_amount, 0, base_rate, tenure,
                               "below minimum score", FALSE)
       ELSE IF loan_amount <= context.pre_approved_limit
       THEN UnderwritingResult(TRUE, loan_amount, emi, interest_rate, tenure,
                               "within pre-approved limit", FALSE)
       ELSE IF loan_amount <= 2 * context.pre_approved_limit
       THEN UnderwritingResult(FALSE, loan_amount, emi, interest_rate, tenure,
                               "salary slip required", TRUE)
       ELSE UnderwritingResult(FALSE, loan_amount, emi, interest_rate, tenure,
                               "exceeds maximum limit", FALSE)

\* The stage of the Reply _generate_decision_response builds, lines 126-296.
decision_stage(result) ==
    IF result.approved THEN COMPLETED
    ELSE IF result.requires_salary_slip THEN SALARY_SLIP
    ELSE REJECTED

\* The Context a session holds when MasterAgent hands it to the
\* UnderwritingAgent: verified, with a complete loan request.
UnderwritingContext(loan_request) ==
    [current_stage |-> UNDERWRITING,
     customer_phone |-> Phone1,
     loan_request |-> loan_request,
     verification_status |-> "True",
     conversation_history |-> <<UserMsg, AssistantMsg>>,
     metadata |-> EmptyDict,
     credit_score |-> None,
     pre_approved_limit |-> None,
     underwriting_result |-> <<>>]

\* What the credit bureau, the offer engine and the customer table answer.
CreditScores == {699, 700, 750}
PreApprovedLimits == {250000, 500000}
BaseRates == {1250, 1500}
LoanAmounts == {250000, 500000, 500001, 1000000, 1000001}
Tenures == {12, 24, 60}
Purposes == {"personal", None}

\* UnderwritingAgent.process, lines 28-50, on the Context of session id;
\* MasterAgent.process then keeps the stage of the Reply (line 295).
underwriting_agent_process(id, credit_score, pre_approved_limit, base_rate) ==
    /\ id \in DOMAIN chat_sessions
    /\ chat_sessions[id].current_stage = UNDERWRITING
    /\ LET context == chat_sessions[id]
       IN IF context.customer_phone \in {None, ""}
          THEN /\ ret' = ProcessRet(id, "ok", VERIFICATION)
               /\ chat_sessions' =
                    Put(chat_sessions, id,
                        [context EXCEPT !.current_stage = VERIFICATION])
          ELSE LET scored == [context EXCEPT
                                !.credit_score = credit_score,
                                !.pre_approved_limit = pre_approved_limit]
                   result == evaluate_loan(scored, base_rate)
               IN /\ ret' = ProcessRet(id, "ok", decision_stage(result))
                  /\ chat_sessions' =
                        Put(chat_sessions, id,
                            [scored EXCEPT
                                !.underwriting_result = <<result>>,
                                !.current_stage = decision_stage(result)])
    /\ UNCHANGED <<smVars, lock, tasks, router, orchestrator>>

\* emi_within_half_salary with the equality of line 327 refused.
emi_below_half_salary(emi, salary) == 2 * emi < salary

\* The test of lines 324-327: the EMI is within half the salary.
emi_within_half_salary(emi, salary) == 2 * emi <= salary

\* The amount line 439 suggests: the loan whose EMI is half the salary at
\* the rate and tenure of the result.
max_loan_amount(salary, result) ==
    divided(salary \div 2,
            emi_factor(monthly_rate(result.interest_rate), result.tenure))

\* The Reply of process_salary_verification: what its message tells, the
\* decision, the salary it was taken on and the amount it suggests as
\* <<amount>> (<<>> when it approves).
SalaryReply(id, decision, salary, suggested) ==
    [ProcessRet(id, "ok", COMPLETED) EXCEPT
        !.op = "process_salary_verification",
        !.message = [decision |-> decision, salary |-> salary,
                     max_loan_amount |-> suggested]]

\* The salaries the customer table may hold for a result: the default of
\* master_agent.py line 385, and the ones around twice the EMI.
Salaries(context) ==
    {50000, 0}
    \cup (IF context.underwriting_result = <<>>
          THEN {}
          ELSE {2 * context.underwriting_result[1].emi - 1,
                2 * context.underwriting_result[1].emi})

\* process_salary_verification, lines 319-474, reached from
\* _handle_salary_slip_stage of master_agent.py at stage SALARY_SLIP.
process_salary_verification(id, salary) ==
    /\ id \in DOMAIN chat_sessions
    /\ chat_sessions[id].current_stage = SALARY_SLIP
    /\ LET context == chat_sessions[id]
           result == context.underwriting_result[1]
       IN IF emi_within_half_salary(result.emi, salary)
          THEN /\ ret' = SalaryReply(id, "approved", salary, <<>>)
               /\ chat_sessions' =
                    Put(chat_sessions, id,
                        [context EXCEPT
                            !.underwriting_result =
                                <<[result EXCEPT
                                    !.approved = TRUE,
                                    !.reason = "approved after salary verification"]>>,
                            !.current_stage = COMPLETED])
          ELSE /\ ret' = SalaryReply(id, "rejected", salary,
                                     <<max_loan_amount(salary, result)>>)
               /\ chat_sessions' =
                    Put(chat_sessions, id,
                        [context EXCEPT
                            !.underwriting_result =
                                <<[result EXCEPT
                                    !.approved = FALSE,
                                    !.reason = "EMI exceeds 50% of salary"]>>,
                            !.current_stage = COMPLETED])
    /\ UNCHANGED <<smVars, lock, tasks, router, orchestrator>>

\* A session that reached UNDERWRITING, for each loan request asked for.
UnderInit ==
    /\ active_conversations = EmptyDict
    /\ paused_conversations = EmptyDict
    /\ state_history = EmptyDict
    /\ now = 0
    /\ ret = NoCall
    /\ lock = Free
    /\ orchestrator = NewOrchestrator
    /\ tasks = [t \in TaskIds |-> IdleTask]
    /\ router = NewRouter(NoLoad)
    /\ \E amount \in LoanAmounts, tenure \in Tenures, purpose \in Purposes :
         chat_sessions =
            [u1 |-> UnderwritingContext(
                        <<[amount |-> amount, tenure |-> tenure,
                           purpose |-> purpose]>>)]

UnderNext ==
    \/ \E id \in Uuids, credit_score \in CreditScores,
          pre_approved_limit \in PreApprovedLimits, base_rate \in BaseRates :
          underwriting_agent_process(id, credit_score, pre_approved_limit,
                                     base_rate)
    \/ \E id \in DOMAIN chat_sessions :
          \E salary \in Salaries(chat_sessions[id]) :
            process_salary_verification(id, salary)

UnderSpec == UnderInit /\ [][UnderNext]_vars

\* ---------------------------------------- IntelligentAgentRouter: routing
\* Scores, confidences and satisfaction are kept in ten-thousandths
\* (9000 is 0.9), the hybrid score in hundred-thousandths.
RoutingStrategy == {"performance", "load_balanced", "context_aware", "hybrid", "ml"}

\* _initialize_agent_capabilities: the capability scores of each agent.
agent_capabilities ==
    [sales |->
        [engagement |-> 9000, negotiation |-> 8000, emotional |-> 7000,
         technical |-> 5000, verification |-> 3000, risk |-> 4000],
     verification |->
        [verification |-> 9000, technical |-> 8000, risk |-> 7000,
         engagement |-> 6000, negotiation |-> 4000, emotional |-> 5000],
     underwriting |->
        [risk |-> 9000, technical |-> 8000, negotiation |-> 7000,
         verification |-> 6000, engagement |-> 5000, emotional |-> 4000]]

\* The weights of the hybrid strategy, in tenths.
routing_weights ==
    [performance |-> 4, load_balance |-> 2, context_match |-> 3, availability |-> 1]

\* The messages routed, and what _analyze_emotional_tone and
\* _identify_required_capabilities find in each by their keywords.
HelpMessage == "I need help with my loan"
VerifyMessage == "please verify my document"
FrustratedMessage == "I am frustrated, am I eligible?"
RouterMessages == {HelpMessage, VerifyMessage, FrustratedMessage}

analyze_emotional_tone(message) ==
    IF message = FrustratedMessage THEN "frustrated" ELSE "neutral"

identify_required_capabilities(message) ==
    CASE message = HelpMessage -> <<"engagement">>
      [] message = VerifyMessage -> <<"verification">>
      [] message = FrustratedMessage -> <<"risk", "emotional">>
      [] OTHER -> <<>>

\* _analyze_request_context, the entries the strategies read.
analyze_request_context(message, stage) ==
    [emotional_tone |-> analyze_emotional_tone(message),
     required_capabilities |-> identify_required_capabilities(message),
     context_stage |-> stage]

RoutingDecision(selected_agent, confidence_score, rationale, alternative_agents, routing_strategy) ==
    [selected_agent |-> selected_agent,
     confidence_score |-> confidence_score,
     rationale |-> rationale,
     alternative_agents |-> alternative_agents,
     routing_strategy |-> routing_strategy]

MaxOf(a, b) == IF a >= b THEN a ELSE b
MinOf(a, b) == IF a <= b THEN a ELSE b

\* Python's min(seq, key) and max(seq, key): of the entries with the best
\* key, the first in the order of seq.
first_min(seq, key) ==
    LET best == CHOOSE i \in DOMAIN seq :
                    /\ \A j \in DOMAIN seq : key[seq[i]] <= key[seq[j]]
                    /\ \A j \in 1..(i - 1) : key[seq[j]] > key[seq[i]]
    IN  seq[best]

first_max(seq, key) ==
    LET best == CHOOSE i \in DOMAIN seq :
                    /\ \A j \in DOMAIN seq : key[seq[i]] >= key[seq[j]]
                    /\ \A j \in 1..(i - 1) : key[seq[j]] < key[seq[i]]
    IN  seq[best]

\* Python's sorted(seq, key, reverse): a stable sort, equal keys keep the
\* order they have in seq also when reverse is set.
RECURSIVE sorted(_, _, _)
sorted(seq, key, reverse) ==
    IF seq = <<>> THEN <<>>
    ELSE LET head == IF reverse THEN first_max(seq, key) ELSE first_min(seq, key)
             at == CHOOSE i \in DOMAIN seq :
                       seq[i] = head /\ \A j \in 1..(i - 1) : seq[j] # head
             rest == [i \in 1..(Len(seq) - 1) |-> IF i < at THEN seq[i] ELSE seq[i + 1]]
         IN  <<head>> \o sorted(rest, key, reverse)

\* The agents other than best, in dictionary order.
others(best) == SelectSeq(Agents, LAMBDA a : a # best)

\* The performance score of _performance_based_routing (lines 382-389).
performance_score(metrics) ==
    LET total == MaxOf(metrics.total_requests, 1)
        success_rate == (metrics.successful_responses * 10000) \div total
        error_rate == 10000 - (metrics.error_count * 10000) \div total
    IN  (success_rate * 4 + metrics.customer_satisfaction * 4 + error_rate * 2) \div 10

performance_scores(r) ==
    [a \in AgentNames |-> performance_score(r.performance_metrics[a])]

\* The loop of lines 382-396: an agent replaces the best one only when it is
\* available and scores strictly higher.
RECURSIVE best_performer(_, _, _, _)
best_performer(r, i, best_agent, best_score) ==
    IF i > Len(Agents) THEN <<best_agent, best_score>>
    ELSE LET score == performance_scores(r)[Agents[i]]
         IN  IF score > best_score /\ r.agent_availability[Agents[i]]
             THEN best_performer(r, i + 1, Agents[i], score)
             ELSE best_performer(r, i + 1, best_agent, best_score)

performance_based_routing(r, analysis) ==
    LET found == best_performer(r, 1, None, 0)
        best_agent == IF found[1] = None THEN "sales" ELSE found[1]
        best_score == IF found[1] = None THEN 6000 ELSE found[2]
    IN  RoutingDecision(best_agent, best_score, "performance",
                        sorted(others(best_agent), performance_scores(r), TRUE),
                        "performance")

load_balanced_routing(r, analysis) ==
    LET available_agents == SelectSeq(Agents, LAMBDA a : r.agent_availability[a])
        best_agent == IF available_agents = <<>>
                      THEN first_min(Agents, r.agent_load)
                      ELSE first_min(available_agents, r.agent_load)
        current_load == r.agent_load[best_agent]
        max_load == r.agent_load[first_max(Agents, r.agent_load)]
        confidence == 10000 - (current_load * 10000) \div MaxOf(max_load, 1)
    IN  RoutingDecision(best_agent, MaxOf(confidence, 3000), "load balancing",
                        sorted(others(best_agent), r.agent_load, FALSE),
                        "load_balanced")

RECURSIVE capability_sum(_, _)
capability_sum(agent_name, capabilities) ==
    IF capabilities = <<>> THEN 0
    ELSE agent_capabilities[agent_name][Head(capabilities)]
            + capability_sum(agent_name, Tail(capabilities))

\* The score _context_aware_routing gives an agent (lines 461-483).
context_score(agent_name, analysis) ==
    LET required == analysis.required_capabilities
        stage == analysis.context_stage
    IN  (IF \/ stage = SALES /\ agent_name = "sales"
            \/ stage = VERIFICATION /\ agent_name = "verification"
            \/ stage = UNDERWRITING /\ agent_name = "underwriting"
         THEN 4000 ELSE 0)
        + (IF required # <<>>
           THEN ((capability_sum(agent_name, required) \div Len(required)) * 6) \div 10
           ELSE 0)
        + (IF analysis.emotional_tone \in {"frustrated", "concerned"} /\ agent_name = "sales"
           THEN 2000 ELSE 0)

context_aware_routing(r, analysis) ==
    LET agent_scores == [a \in AgentNames |-> context_score(a, analysis)]
        best_agent == first_max(Agents, agent_scores)
    IN  RoutingDecision(best_agent, MinOf(agent_scores[best_agent], 10000), "context",
                        sorted(others(best_agent), agent_scores, TRUE),
                        "context_aware")

hybrid_routing(r, analysis) ==
    LET performance_decision == performance_based_routing(r, analysis)
        load_decision == load_balanced_routing(r, analysis)
        context_decision == context_aware_routing(r, analysis)
        agent_scores ==
            [a \in AgentNames |->
                (IF performance_decision.selected_agent = a
                 THEN performance_decision.confidence_score * routing_weights.performance
                 ELSE 0)
                + (IF load_decision.selected_agent = a
                   THEN load_decision.confidence_score * routing_weights.load_balance
                   ELSE 0)
                + (IF context_decision.selected_agent = a
                   THEN context_decision.confidence_score * routing_weights.context_match
                   ELSE 0)
                + (IF r.agent_availability[a]
                   THEN 10000 * routing_weights.availability ELSE 0)]
        best_agent == first_max(Agents, agent_scores)
    IN  RoutingDecision(best_agent, MinOf(agent_scores[best_agent] \div 10, 10000), "hybrid",
                        sorted(others(best_agent), agent_scores, TRUE),
                        "hybrid")

\* The dispatch of route_request on the strategy (lines 174-184).
strategy_decision(r, routing_strategy, analysis) ==
    CASE routing_strategy = "performance" -> performance_based_routing(r, analysis)
      [] routing_strategy = "load_balanced" -> load_balanced_routing(r, analysis)
      [] routing_strategy = "context_aware" -> context_aware_routing(r, analysis)
      [] OTHER -> hybrid_routing(r, analysis)

\* ---------------------------------------- IntelligentAgentRouter: actions
\* The decision route_request returns for a message that is a string or None,
\* of a context at stage: forced, by strategy, or the fallback of the except
\* clause, which handles the TypeError len(None) raises in the analysis.
routed_decision(r, message, stage, routing_strategy, force_agent) ==
    IF force_agent # None /\ force_agent \in AgentNames
    THEN RoutingDecision(force_agent, 10000, "forced", Agents, routing_strategy)
    ELSE IF message = None
         THEN RoutingDecision("sales", 5000, "fallback", Agents, routing_strategy)
         ELSE strategy_decision(r, routing_strategy, analyze_request_context(message, stage))

\* Only a decision made by a strategy reaches the load update of line 192.
counts_as_load(message, force_agent) ==
    ~(force_agent # None /\ force_agent \in AgentNames) /\ message # None

route_request(message, stage, routing_strategy, force_agent) ==
    LET decision == routed_decision(router, message, stage, routing_strategy, force_agent)
        selected == decision.selected_agent
    IN  /\ router.total_routings < MaxRoutings
        /\ router' =
             [router EXCEPT
                !.total_routings = @ + 1,
                !.agent_load[selected] =
                    IF counts_as_load(message, force_agent) THEN @ + 1 ELSE @]
        /\ ret' = Ret("route_request", None, "ok", decision)
        /\ UNCHANGED <<smVars, lock, tasks, chat_sessions, orchestrator>>

update_agent_availability(agent_name, available) ==
    /\ router' =
         IF agent_name \in DOMAIN router.agent_availability
         THEN [router EXCEPT !.agent_availability[agent_name] = available]
         ELSE router
    /\ ret' = Ret("update_agent_availability", None, "ok", agent_name)
    /\ UNCHANGED <<smVars, lock, tasks, chat_sessions, orchestrator>>

\* A Reply as far as the router reads it; metadata is None unless the
\* agent passed one to _generate_response.
AgentReply(stage, long, metadata) ==
    [stage |-> stage, long |-> long, requires_input |-> TRUE, metadata |-> metadata]

estimate_satisfaction(response) ==
    MinOf(7000 + (IF response.long THEN 1000 ELSE 0)
               + (IF ~response.requires_input \/ response.stage # GREETING
                  THEN 1000 ELSE 0),
          10000)

\* _update_agent_performance without the error count; response is <<>> when
\* the caller passes none.
update_agent_performance_uncounted(metrics, success, response) ==
    LET counted == [metrics EXCEPT
                        !.total_requests = @ + 1,
                        !.successful_responses = IF success THEN @ + 1 ELSE @]
    IN  IF success /\ response # <<>>
        THEN [counted EXCEPT
                !.customer_satisfaction =
                    IF @ = 0 THEN estimate_satisfaction(response[1])
                    ELSE (@ * (counted.successful_responses - 1)
                            + estimate_satisfaction(response[1]))
                         \div counted.successful_responses]
        ELSE counted

update_agent_performance(metrics, success, response) ==
    LET counted == [metrics EXCEPT
                        !.total_requests = @ + 1,
                        !.successful_responses = IF success THEN @ + 1 ELSE @,
                        !.error_count = IF success THEN @ ELSE @ + 1]
    IN  IF success /\ response # <<>>
        THEN [counted EXCEPT
                !.customer_satisfaction =
                    IF @ = 0 THEN estimate_satisfaction(response[1])
                    ELSE (@ * (counted.successful_responses - 1)
                            + estimate_satisfaction(response[1]))
                         \div counted.successful_responses]
        ELSE counted

\* What execute_with_agent hands back: the agents it invoked in order, which
\* of the invocations raised, the stage of the Reply, whether the Reply is
\* the fixed apology, and the stage of the context it was called with.
Executed(invoked, raised, stage, apology, current_stage) ==
    [Ret("execute_with_agent", None, "ok",
         [invoked |-> invoked, raised |-> raised, apology |-> apology,
          current_stage |-> current_stage])
     EXCEPT !.new_stage = stage]

\* What one call of an agent's process does: it raises, or returns a Reply.
Raises == [raises |-> TRUE]
ResponderOutcomes ==
    {Raises, AgentReply(SALES, TRUE, None), AgentReply(GREETING, FALSE, "dict")}

\* execute_with_agent for a decision and a context at current_stage; first
\* and second are what the selected and the alternative agent do when called.
execute_with_agent(decision, current_stage, first, second) ==
    LET agent_name == decision.selected_agent
        metrics == router.performance_metrics[agent_name]
        \* lines 581-600: the try block up to the point it is left
        tried == IF first = Raises THEN metrics
                 ELSE update_agent_performance(metrics, TRUE, <<first>>)
        completes == first # Raises /\ first.metadata # None
        \* lines 602-605: the except clause
        failed == update_agent_performance(tried, FALSE, <<>>)
        alternative_agent == decision.alternative_agents[1]
    IN  /\ metrics.total_requests + 2 <= MaxAgentRequests
        /\ IF completes
           THEN /\ router' = [router EXCEPT !.performance_metrics[agent_name] = tried]
                /\ ret' = Executed(<<agent_name>>, <<FALSE>>, first.stage, FALSE, current_stage)
           ELSE /\ router' = [router EXCEPT !.performance_metrics[agent_name] = failed]
                /\ ret' =
                     IF decision.alternative_agents = <<>>
                     THEN Executed(<<agent_name>>, <<first = Raises>>, current_stage, TRUE, current_stage)
                     ELSE IF second = Raises
                          THEN Executed(<<agent_name, alternative_agent>>,
                                        <<first = Raises, TRUE>>, current_stage, TRUE, current_stage)
                          ELSE Executed(<<agent_name, alternative_agent>>,
                                        <<first = Raises, FALSE>>, second.stage, FALSE, current_stage)
        /\ UNCHANGED <<smVars, lock, tasks, chat_sessions, orchestrator>>

\* The load counters a router may have reached by routing, given as its
\* starting point.
RouterLoads == {NoLoad, [sales |-> 5, verification |-> 1, underwriting |-> 3]}

RouterStages == {GREETING, UNDERWRITING}

RouterInit ==
    /\ active_conversations = EmptyDict
    /\ paused_conversations = EmptyDict
    /\ state_history = EmptyDict
    /\ now = 0
    /\ ret = NoCall
    /\ lock = Free
    /\ orchestrator = NewOrchestrator
    /\ tasks = [t \in TaskIds |-> IdleTask]
    /\ chat_sessions = EmptyDict
    /\ \E agent_load \in RouterLoads : router = NewRouter(agent_load)

RouterNext ==
    \/ \E message \in RouterMessages \cup {None}, stage \in RouterStages, routing_strategy \in RoutingStrategy, force_agent \in AgentNames \cup {None} :
          route_request(message, stage, routing_strategy, force_agent)
    \/ \E agent_name \in AgentNames, available \in BOOLEAN :
          update_agent_availability(agent_name, available)
    \/ \E stage \in RouterStages, first \in ResponderOutcomes, second \in ResponderOutcomes :
          /\ ret.op = "route_request"
          /\ execute_with_agent(ret.message, stage, first, second)

RouterSpec == RouterInit /\ [][RouterNext]_vars

\* The router while the availability of its agents is left as constructed.
ExecuteNext ==
    \/ \E message \in RouterMessages \cup {None}, stage \in RouterStages, routing_strategy \in RoutingStrategy, force_agent \in AgentNames \cup {None} :
          route_request(message, stage, routing_strategy, force_agent)
    \/ \E stage \in RouterStages, first \in ResponderOutcomes, second \in ResponderOutcomes :
          /\ ret.op = "route_request"
          /\ execute_with_agent(ret.message, stage, first, second)

ExecuteSpec == RouterInit /\ [][ExecuteNext]_vars

\* ------------------------------------------------ AgentOrchestrator: patterns
OrchestrationPattern == {"linear", "conditional", "parallel", "chain", "hybrid", "tree"}

\* _setup_orchestration_rules, "stage_routing": the rules of a stage, with
\* the defaults the patterns read through .get filled in where a key is
\* absent (fallback_agents [], chain_sequence ["master"], decision_tree {}).
\* ESCALATED has no rules.
SalesTree ==
    [amount_extraction |-> [next |-> "sales", escalation |-> FALSE],
     negotiation_needed |-> [next |-> "sales", escalation |-> TRUE],
     complete |-> [next |-> "verification", escalation |-> FALSE]]

DecisionTree ==
    [sanction_letter |-> [next |-> "master", escalation |-> FALSE],
     loan_details |-> [next |-> "underwriting", escalation |-> FALSE],
     complete |-> [next |-> "master", escalation |-> FALSE]]

StageRules(primary_agent, pattern, fallback_agents, chain_sequence, decision_tree) ==
    [primary_agent |-> primary_agent, pattern |-> pattern,
     fallback_agents |-> fallback_agents, chain_sequence |-> chain_sequence,
     decision_tree |-> decision_tree]

stage_routing(stage) ==
    CASE stage = GREETING -> StageRules("master", "linear", <<"sales">>, <<"master">>, EmptyDict)
      [] stage = SALES -> StageRules("sales", "conditional", <<>>, <<"master">>, SalesTree)
      [] stage = VERIFICATION -> StageRules("verification", "chain", <<>>, <<"verification", "underwriting">>, EmptyDict)
      [] stage = UNDERWRITING -> StageRules("underwriting", "parallel", <<>>, <<"master">>, EmptyDict)
      [] stage = DECISION -> StageRules("underwriting", "conditional", <<>>, <<"master">>, DecisionTree)
      [] stage = SALARY_SLIP -> StageRules("verification", "linear", <<"underwriting">>, <<"master">>, EmptyDict)
      [] OTHER -> StageRules("master", "linear", <<>>, <<"master">>, EmptyDict)

has_stage_rules(stage) == stage # ESCALATED

\* What one call of a Responder's process does: it raises, or it returns a
\* Reply that keeps the conversation at the Responder's stage or moves it on
\* (advance) and is or is not marked final.  A final Reply that stays (the
\* rejection of UnderwritingAgent) is left out: it differs from the final
\* Reply that moves on only in the stage it names.
OrchestratorOutcomes ==
    {Raises,
     [advance |-> FALSE, final |-> FALSE],
     [advance |-> TRUE, final |-> FALSE],
     [advance |-> TRUE, final |-> TRUE]}

\* The stage of a Responder's Reply.
response_stage(agent_name, advance) ==
    CASE agent_name = "sales" -> IF advance THEN VERIFICATION ELSE SALES
      [] agent_name = "verification" -> IF advance THEN UNDERWRITING ELSE VERIFICATION
      [] OTHER -> IF advance THEN COMPLETED ELSE SALARY_SLIP

\* A ChatResponse as the orchestrator handles it: who built it, its stage,
\* its final mark, and whether its metadata is a dict.
Response(agent_name, stage, final, metadata) ==
    [agent |-> agent_name, stage |-> stage, final |-> final, metadata |-> metadata]

\* What the credit bureau and the offer engine answer for the customer.
BureauScore == 750
OfferLimit == 500000

\* The fields a Responder that returns writes to the Context (sales_agent.py
\* 41, 135; verification_agent.py 33-35; underwriting_agent.py 40-48); none
\* of them is current_stage.
responder_writes_with_stage(context, agent_name, outcome) ==
    [context EXCEPT !.current_stage = response_stage(agent_name, outcome.advance)]

responder_writes(context, agent_name, outcome) ==
    CASE agent_name = "sales" ->
            IF outcome.advance THEN [context EXCEPT !.loan_request = Loan1] ELSE context
      [] agent_name = "verification" ->
            IF outcome.advance
            THEN [context EXCEPT !.customer_phone = Phone1, !.verification_status = "True"]
            ELSE context
      [] OTHER ->
            IF context.customer_phone # None
            THEN [context EXCEPT !.credit_score = BureauScore,
                                 !.pre_approved_limit = OfferLimit]
            ELSE context

\* What the sub-tasks of one parallel execution meet: whether the credit
\* bureau and the offer engine raise, and the order in which the three
\* coroutines complete (a permutation of their places in the list handed
\* to asyncio.gather).  _execute_risk_assessment awaits nothing and calls
\* nothing that raises.
CompletionOrders ==
    {order \in [1..3 -> 1..3] : \A i \in 1..3 : \E n \in 1..3 : order[n] = i}

Lookups ==
    [credit_raises : BOOLEAN, offer_raises : BOOLEAN, order : CompletionOrders]

AllReturn ==
    [credit_raises |-> FALSE, offer_raises |-> FALSE, order |-> <<1, 2, 3>>]

\* The state of a pattern execution: the orchestrator, the Context, the
\* outcomes the Responders still to be called will have, the Responders
\* called so far with whether each raised and what each returned (<<>> for
\* one that raised), the Response in hand (<<>> for none), what the
\* sub-tasks of a parallel execution meet and the Context it aggregated
\* (<<>> when it aggregated none).
Run(o, context, outcomes) ==
    [orchestrator |-> o, context |-> context, outcomes |-> outcomes,
     invoked |-> <<>>, raised |-> <<>>, replies |-> <<>>,
     response |-> <<>>, failed |-> FALSE,
     lookups |-> AllReturn, aggregated |-> <<>>]

\* `await self.agents[agent_name].process(message, context)`: a name that is
\* not a key of agents raises KeyError before any Responder runs.
call_agent(run, agent_name) ==
    IF agent_name \notin AgentNames
    THEN [run EXCEPT !.failed = TRUE]
    ELSE LET outcome == Head(run.outcomes)
         IN  IF outcome = Raises
             THEN [run EXCEPT !.outcomes = Tail(@),
                              !.invoked = Append(@, agent_name),
                              !.raised = Append(@, TRUE),
                              !.replies = Append(@, <<>>),
                              !.failed = TRUE]
             ELSE [run EXCEPT !.outcomes = Tail(@),
                              !.invoked = Append(@, agent_name),
                              !.raised = Append(@, FALSE),
                              !.replies =
                                 Append(@, <<Response(agent_name,
                                                      response_stage(agent_name, outcome.advance),
                                                      outcome.final, None)>>),
                              !.failed = FALSE,
                              !.context = responder_writes(@, agent_name, outcome),
                              !.response =
                                 <<Response(agent_name,
                                            response_stage(agent_name, outcome.advance),
                                            outcome.final, None)>>]

set_agent_state(run, agent_name, state) ==
    [run EXCEPT !.orchestrator.agent_states = Put(@, agent_name, state)]

\* The fallback loop of _execute_linear_orchestration (lines 348-357): the
\* first fallback that returns ends it; when none does the pattern raises.
RECURSIVE try_fallback_agents(_, _)
try_fallback_agents(run, fallback_agents) ==
    IF fallback_agents = <<>>
    THEN [run EXCEPT !.failed = TRUE, !.response = <<>>]
    ELSE LET called == call_agent([run EXCEPT !.response = <<>>], Head(fallback_agents))
         IN  IF called.failed
             THEN try_fallback_agents(called, Tail(fallback_agents))
             ELSE set_agent_state(called, Head(fallback_agents), "completed")

\* _execute_linear_orchestration.  After the primary agent returns, line 338
\* reads agent_performance[primary_agent], and the table has no rows: the
\* KeyError is raised inside the try block, so the except clause runs for a
\* primary agent that returned as it does for one that raised.
execute_linear_orchestration(run) ==
    IF ~has_stage_rules(run.context.current_stage)
    THEN [run EXCEPT !.failed = TRUE]
    ELSE LET stage_rules == stage_routing(run.context.current_stage)
             primary_agent == stage_rules.primary_agent
             called == call_agent(set_agent_state(run, primary_agent, "processing"),
                                  primary_agent)
         IN  IF ~called.failed /\ primary_agent \in DOMAIN called.orchestrator.agent_performance
             THEN set_agent_state(called, primary_agent, "completed")
             ELSE try_fallback_agents(set_agent_state(called, primary_agent, "error"),
                                      stage_rules.fallback_agents)

\* The messages handed to the orchestrator, and the branch of
\* _make_routing_decision their words select.
AmountMessage == "I need 5 lakh rupees"
NegotiateMessage == "but can it be cheaper"
OrchestratorMessages == {AmountMessage, NegotiateMessage, Hello}

make_routing_decision(message, decision_tree) ==
    IF message = AmountMessage /\ "amount_extraction" \in DOMAIN decision_tree
    THEN decision_tree.amount_extraction
    ELSE IF message = NegotiateMessage /\ "negotiation_needed" \in DOMAIN decision_tree
    THEN decision_tree.negotiation_needed
    ELSE IF "complete" \in DOMAIN decision_tree
    THEN decision_tree.complete
    ELSE [next |-> "master", escalation |-> FALSE]

execute_conditional_orchestration(run, message) ==
    IF ~has_stage_rules(run.context.current_stage)
    THEN [run EXCEPT !.failed = TRUE]
    ELSE LET decision_tree == stage_routing(run.context.current_stage).decision_tree
             routing_decision == make_routing_decision(message, decision_tree)
             escalated ==
                IF routing_decision.escalation
                THEN [run EXCEPT !.context.metadata.escalation_count = @ + 1]
                ELSE run
         IN  call_agent(escalated, routing_decision.next)

\* A result of asyncio.gather(..., return_exceptions=True): the exception
\* a sub-task raised, or the dict it returned with its result as <<value>>
\* (<<>> for None).
TaskRaised(type) == [type |-> type, exception |-> TRUE, result |-> <<>>]

TaskResult(type, result) == [type |-> type, exception |-> FALSE, result |-> result]

\* _execute_credit_check and _execute_offer_evaluation: without a phone
\* number no service is called.
execute_credit_check(context, lookups) ==
    IF context.customer_phone = None
    THEN TaskResult("credit_check", <<>>)
    ELSE IF lookups.credit_raises
    THEN TaskRaised("credit_check")
    ELSE TaskResult("credit_check", <<BureauScore>>)

execute_offer_evaluation(context, lookups) ==
    IF context.customer_phone = None
    THEN TaskResult("offer_evaluation", <<>>)
    ELSE IF lookups.offer_raises
    THEN TaskRaised("offer_evaluation")
    ELSE TaskResult("offer_evaluation", <<OfferLimit>>)

\* _execute_risk_assessment: the risk score in tenths, from the credit score
\* the Context holds when the sub-task runs.
risk_score(credit_score) ==
    IF credit_score = 0 THEN 0
    ELSE IF credit_score > 750 THEN 1
    ELSE IF credit_score > 700 THEN 3
    ELSE 7

risk_category(score) ==
    IF score < 2 THEN "low" ELSE IF score < 5 THEN "medium" ELSE "high"

execute_risk_assessment(context) ==
    TaskResult("risk_assessment",
               <<[risk_score |-> risk_score(context.credit_score),
                  risk_category |-> risk_category(risk_score(context.credit_score))]>>)

\* The sub-task at a place of the list handed to asyncio.gather.
execute_task(place, context, lookups) ==
    CASE place = 1 -> execute_credit_check(context, lookups)
      [] place = 2 -> execute_offer_evaluation(context, lookups)
      [] OTHER -> execute_risk_assessment(context)

\* asyncio.gather: the sub-tasks complete in the order given, each reading
\* the Context as it is then, and each result is put at the place of its
\* sub-task in the list.
RECURSIVE gather(_, _, _, _)
gather(results, order, context, lookups) ==
    IF order = <<>>
    THEN results
    ELSE gather([results EXCEPT ![Head(order)] =
                    <<execute_task(Head(order), context, lookups)>>],
                Tail(order), context, lookups)

\* The body of the loop of _aggregate_parallel_results for a result that is
\* no exception: it is written to the field of its type.
aggregate_result(context, result) ==
    IF result.type = "credit_check" /\ result.result # <<>>
    THEN [context EXCEPT !.credit_score = result.result[1]]
    ELSE IF result.type = "offer_evaluation" /\ result.result # <<>>
    THEN [context EXCEPT !.pre_approved_limit = result.result[1]]
    ELSE IF result.type = "risk_assessment"
    THEN [context EXCEPT !.metadata = Put(@, "risk_assessment", result.result[1])]
    ELSE context

RECURSIVE aggregate_parallel_results_until_exception(_, _)
aggregate_parallel_results_until_exception(context, results) ==
    IF results = <<>>
    THEN context
    ELSE IF Head(results)[1].exception
    THEN context
    ELSE aggregate_parallel_results_until_exception(
            aggregate_result(context, Head(results)[1]), Tail(results))

\* _aggregate_parallel_results: an exception among the results is skipped.
RECURSIVE aggregate_parallel_results(_, _)
aggregate_parallel_results(context, results) ==
    IF results = <<>>
    THEN context
    ELSE IF Head(results)[1].exception
    THEN aggregate_parallel_results(context, Tail(results))
    ELSE aggregate_parallel_results(
            aggregate_result(context, Head(results)[1]), Tail(results))

\* The Context the parallel pattern hands to UnderwritingAgent.  Only the
\* stage UNDERWRITING declares parallel_tasks; elsewhere no sub-task runs.
aggregated_context(context, lookups) ==
    IF context.current_stage = UNDERWRITING
    THEN aggregate_parallel_results(
            context,
            gather(<<<<>>, <<>>, <<>>>>, lookups.order, context, lookups))
    ELSE context

\* _execute_parallel_orchestration: the sub-tasks are gathered, their
\* results are written to the Context, then UnderwritingAgent is called.
called_with_aggregated(run, aggregated) ==
    call_agent([run EXCEPT !.context = aggregated,
                           !.aggregated = <<aggregated>>],
               "underwriting")

execute_parallel_orchestration(run) ==
    IF ~has_stage_rules(run.context.current_stage)
    THEN [run EXCEPT !.failed = TRUE]
    ELSE called_with_aggregated(run, aggregated_context(run.context, run.lookups))

\* _should_break_chain: ChatResponse has no attribute error.
should_break_chain_never(response) == FALSE

should_break_chain(response) == response.final

\* The loop of _execute_chain_orchestration over what is left of the chain.
RECURSIVE chain_from(_, _)
chain_from(run, chain_sequence) ==
    IF chain_sequence = <<>>
    THEN run
    ELSE LET called == call_agent(run, Head(chain_sequence))
         IN  IF called.failed
             THEN IF run.response = <<>>
                  THEN called
                  ELSE [called EXCEPT !.failed = FALSE]
             ELSE IF should_break_chain(called.response[1])
                  THEN called
                  ELSE chain_from(called, Tail(chain_sequence))

execute_chain_orchestration(run) ==
    IF ~has_stage_rules(run.context.current_stage)
    THEN [run EXCEPT !.failed = TRUE]
    ELSE chain_from(run, stage_routing(run.context.current_stage).chain_sequence)

\* _execute_decision_tree_orchestration over the path of
\* _traverse_decision_tree: a validation step, then SalesAgent, then
\* VerificationAgent, with nothing caught in between.
execute_decision_tree_orchestration(run) ==
    LET sales == call_agent(run, "sales")
    IN  IF sales.failed THEN sales ELSE call_agent(sales, "verification")

\* ----------------------------------------------- AgentOrchestrator: the call
\* More kinds of user message a history entry can be: one of more than a
\* hundred characters, one holding four of the five urgency words, and two
\* holding two of them each.
LongUserMsg == "user_long"
UrgentMsg == "user_urgent"
HurryMsg == "user_hurry"
RushMsg == "user_rush"

IsUser(entry) == entry \in {UserMsg, FrustratedMsg, LongUserMsg, UrgentMsg, HurryMsg, RushMsg}

\* len(msg["message"]) of an entry.
message_length(entry) ==
    CASE entry = LongUserMsg -> 240
      [] entry = UrgentMsg -> 48
      [] entry = AssistantMsg -> 60
      [] OTHER -> 12

\* The keywords of the intent "urgency" a message holds.
urgency_keywords == {"urgent", "immediate", "asap", "quick", "fast"}

urgency_words(entry) ==
    CASE entry = UrgentMsg -> {"urgent", "immediate", "asap", "quick"}
      [] entry = HurryMsg -> {"quick", "fast"}
      [] entry = RushMsg -> {"urgent", "asap"}
      [] OTHER -> {}

\* context.conversation_history[-5:]
last_messages(history) ==
    IF Len(history) <= 5 THEN history ELSE SubSeq(history, Len(history) - 4, Len(history))

\* _calculate_intent_scores on the user messages among the last five: how
\* many of the urgency keywords the joined text holds; the score is that
\* number over the number of keywords.
urgency_count(history) ==
    Cardinality({keyword \in urgency_keywords :
                    \E i \in DOMAIN last_messages(history) :
                        /\ IsUser(last_messages(history)[i])
                        /\ keyword \in urgency_words(last_messages(history)[i])})

\* intent_scores.get("urgency", 0) > 0.7
urgency_above_threshold(history) ==
    10 * urgency_count(history) > 7 * Cardinality(urgency_keywords)

\* _analyze_conversation_flow divides by the number of user messages and by
\* the number of assistant messages of a history of two or more entries.
enrichment_raises(context) ==
    LET history == context.conversation_history
    IN  /\ Len(history) >= 2
        /\ \/ \A i \in DOMAIN history : ~IsUser(history[i])
           \/ \A i \in DOMAIN history : IsUser(history[i])

\* The number of user messages of a history and the sum of their lengths.
RECURSIVE user_count(_)
user_count(history) ==
    IF history = <<>> THEN 0
    ELSE (IF IsUser(Head(history)) THEN 1 ELSE 0) + user_count(Tail(history))

RECURSIVE user_length(_)
user_length(history) ==
    IF history = <<>> THEN 0
    ELSE (IF IsUser(Head(history)) THEN message_length(Head(history)) ELSE 0)
         + user_length(Tail(history))

\* flow_analysis["complexity"], by the average length of the user messages.
complexity(history) ==
    IF Len(history) < 2 THEN "low"
    ELSE IF user_length(history) > 100 * user_count(history) THEN "high"
    ELSE IF user_length(history) > 50 * user_count(history) THEN "medium"
    ELSE "low"

\* flow_analysis["engagement"], by the length of the history.
engagement(history) ==
    IF Len(history) < 2 \/ Len(history) > 10 THEN "high"
    ELSE IF Len(history) > 5 THEN "medium" ELSE "low"

\* stage_rules["pattern"], LINEAR for a stage without routing rules.
stage_pattern(stage) ==
    IF has_stage_rules(stage) THEN stage_routing(stage).pattern ELSE "linear"

determine_orchestration_strategy_urgency_first(context) ==
    IF context.conversation_history = <<>>
    THEN stage_pattern(context.current_stage)
    ELSE IF urgency_above_threshold(context.conversation_history)
    THEN "chain"
    ELSE IF complexity(context.conversation_history) = "high"
    THEN "tree"
    ELSE IF engagement(context.conversation_history) = "low"
    THEN "linear"
    ELSE stage_pattern(context.current_stage)

\* _determine_orchestration_strategy.  The metadata written by the
\* enrichment is never empty; it holds intent_scores and flow_analysis when
\* the history is not empty.
determine_orchestration_strategy(context) ==
    IF context.conversation_history = <<>>
    THEN stage_pattern(context.current_stage)
    ELSE IF complexity(context.conversation_history) = "high"
    THEN "tree"
    ELSE IF urgency_above_threshold(context.conversation_history)
    THEN "chain"
    ELSE IF engagement(context.conversation_history) = "low"
    THEN "linear"
    ELSE stage_pattern(context.current_stage)

\* OrchestrationPattern is a plain Enum, so a member and its value, a str,
\* are never equal.  The members are modelled by the strings above and the
\* value of a member by the same string in quotes.
value(pattern) ==
    CASE pattern = "linear" -> "'linear'"
      [] pattern = "conditional" -> "'conditional'"
      [] pattern = "parallel" -> "'parallel'"
      [] pattern = "chain" -> "'chain'"
      [] pattern = "hybrid" -> "'hybrid'"
      [] pattern = "tree" -> "'tree'"

\* The comparisons of lines 184-193: the routine run for a strategy is the
\* one of the member it equals, and the decision tree for anything else.
routine(strategy) ==
    IF strategy \in {"linear", "conditional", "parallel", "chain"}
    THEN strategy
    ELSE "tree"

\* The dispatch of orchestrate_conversation on the strategy (lines 184-193).
execute_strategy(run, strategy, message) ==
    CASE routine(strategy) = "linear" -> execute_linear_orchestration(run)
      [] routine(strategy) = "conditional" -> execute_conditional_orchestration(run, message)
      [] routine(strategy) = "parallel" -> execute_parallel_orchestration(run)
      [] routine(strategy) = "chain" -> execute_chain_orchestration(run)
      [] OTHER -> execute_decision_tree_orchestration(run)

\* _post_process_response: the metadata of the Response becomes a dict.
post_process_response(response) == [response EXCEPT !.metadata = "dict"]

\* _handle_orchestration_error: one call of agents["master"], and the
\* apology at the Context's stage when that raises.
handle_orchestration_error(run) ==
    LET retry == call_agent([run EXCEPT !.invoked = <<>>, !.raised = <<>>,
                                        !.replies = <<>>,
                                        !.response = <<>>, !.failed = FALSE],
                            "master")
    IN  IF retry.failed
        THEN [retry EXCEPT !.response =
                <<Response("orchestrator", retry.context.current_stage, FALSE, None)>>]
        ELSE retry

\* What orchestrate_conversation did: the strategy it executed (None when
\* the enrichment raised) and the routine it ran for it, the Responders the pattern called and which of
\* them raised, whether the pattern execution raised, the Responders the
\* error handler called, the Response returned, and for the parallel
\* pattern what its sub-tasks met and the Context it aggregated.
Orchestrated(session_id, strategy, pattern, failed, retry) ==
    [Ret("orchestrate_conversation", session_id, "ok",
         [strategy |-> strategy,
          routine |-> IF strategy = None THEN None ELSE routine(strategy),
          lookups |-> pattern.lookups, aggregated |-> pattern.aggregated,
          invoked |-> pattern.invoked, raised |-> pattern.raised,
          replies |-> pattern.replies,
          pattern_raised |-> failed,
          retried |-> retry.invoked,
          response |-> retry.response[1]])
     EXCEPT !.new_stage = retry.response[1].stage]

orchestrate_conversation_gathering(session_id, message, orchestration_pattern, outcomes, lookups) ==
    /\ session_id \in DOMAIN active_conversations
    /\ orchestrator.total_conversations < MaxConversations
    /\ \E call \in
          {LET context == active_conversations[session_id]
               initialized ==
                   [orchestrator EXCEPT
                       !.agents_initialized = TRUE,
                       !.agent_states =
                           IF orchestrator.agents_initialized THEN @
                           ELSE [a \in AgentNames |-> "idle"],
                       !.total_conversations = @ + 1]
               enriched == enrich_context(context, session_id, now)
               start == [Run(initialized, enriched, outcomes) EXCEPT !.lookups = lookups]
               strategy == IF enrichment_raises(context) THEN None
                           ELSE IF orchestration_pattern # None THEN orchestration_pattern
                           ELSE determine_orchestration_strategy(enriched)
               pattern == IF strategy = None THEN [start EXCEPT !.failed = TRUE]
                          ELSE execute_strategy(start, strategy, message)
               final == IF pattern.failed
                        THEN handle_orchestration_error(pattern)
                        ELSE [pattern EXCEPT !.invoked = <<>>,
                                             !.response = <<post_process_response(@[1])>>]
           IN  [strategy |-> strategy, pattern |-> pattern, final |-> final]} :
          /\ active_conversations' = Put(active_conversations, session_id, call.final.context)
          /\ orchestrator' = call.final.orchestrator
          /\ ret' = Orchestrated(session_id, call.strategy, call.pattern, call.pattern.failed, call.final)
          /\ UNCHANGED <<paused_conversations, state_history, now, lock, tasks, chat_sessions, router>>

\* orchestrate_conversation when every sub-task of the parallel pattern
\* returns and they complete in the order they were started.
orchestrate_conversation_call(session_id, message, orchestration_pattern, outcomes) ==
    orchestrate_conversation_gathering(session_id, message, orchestration_pattern, outcomes, AllReturn)

\* The Context a conversation handed to the orchestrator may be.  A credit
\* score or a limit that is None is kept as 0; the code tests both with
\* `if context.credit_score`.
OrchestratorContext(stage, history, phone) ==
    [UnderwritingContext(NoLoan) EXCEPT
        !.credit_score = 0,
        !.pre_approved_limit = 0,
        !.current_stage = stage,
        !.conversation_history = history,
        !.customer_phone = phone,
        !.verification_status = IF phone = None THEN None ELSE "True"]

OrchestratorHistories ==
    {<<>>,
     <<UserMsg, AssistantMsg>>,
     <<UserMsg, UserMsg>>,
     <<UserMsg, AssistantMsg, UserMsg, AssistantMsg, UserMsg, AssistantMsg>>}

OrchestratorInit ==
    /\ paused_conversations = EmptyDict
    /\ state_history = EmptyDict
    /\ now = 0
    /\ ret = NoCall
    /\ lock = Free
    /\ orchestrator = NewOrchestrator
    /\ tasks = [t \in TaskIds |-> IdleTask]
    /\ chat_sessions = EmptyDict
    /\ router = NewRouter(NoLoad)
    /\ \E stage \in ChatStage, history \in OrchestratorHistories :
          active_conversations =
             [s \in SessionIds |-> OrchestratorContext(stage, history, None)]

OrchestratorNext ==
    \E id \in SessionIds, message \in OrchestratorMessages, orchestration_pattern \in OrchestrationPattern \cup {None}, first \in OrchestratorOutcomes, second \in OrchestratorOutcomes :
        orchestrate_conversation_call(id, message, orchestration_pattern, <<first, second>>)

OrchestratorSpec == OrchestratorInit /\ [][OrchestratorNext]_vars

\* The parallel pattern on its own: a conversation whose phone number was
\* or was not verified, that holds a credit score from an earlier lookup or
\* none, at the stage that declares the sub-tasks, at one that declares
\* none and at the one without routing rules.
ParallelStages == {UNDERWRITING, SALES, ESCALATED}
EarlierScores == {0, 720}
EarlierLimits == {0, 200000}

ParallelContext(stage, history, phone, credit_score, pre_approved_limit) ==
    [OrchestratorContext(stage, history, phone) EXCEPT
        !.credit_score = credit_score,
        !.pre_approved_limit = pre_approved_limit]

ParallelInit ==
    /\ paused_conversations = EmptyDict
    /\ state_history = EmptyDict
    /\ now = 0
    /\ ret = NoCall
    /\ lock = Free
    /\ orchestrator = NewOrchestrator
    /\ tasks = [t \in TaskIds |-> IdleTask]
    /\ chat_sessions = EmptyDict
    /\ router = NewRouter(NoLoad)
    /\ \E stage \in ParallelStages, history \in {<<>>, <<UserMsg, AssistantMsg>>}, phone \in {None, Phone1}, credit_score \in EarlierScores, pre_approved_limit \in EarlierLimits :
          active_conversations =
             [s \in SessionIds |-> ParallelContext(stage, history, phone, credit_score, pre_approved_limit)]

ParallelNext ==
    \E id \in SessionIds, lookups \in Lookups, first \in OrchestratorOutcomes :
        orchestrate_conversation_gathering(id, Hello, "parallel", <<first, first>>, lookups)

ParallelSpec == ParallelInit /\ [][ParallelNext]_vars

\* The choice of a strategy on its own: conversations at every stage whose
\* histories differ in length, in the length of the user messages and in
\* the urgency words they hold, handed over without a pattern.
StrategyHistories ==
    {<<>>,
     <<UserMsg>>,
     <<LongUserMsg>>,
     <<UrgentMsg>>,
     <<UserMsg, AssistantMsg>>,
     <<UserMsg, UserMsg>>,
     <<LongUserMsg, AssistantMsg>>,
     <<UrgentMsg, AssistantMsg>>,
     <<HurryMsg, AssistantMsg>>,
     <<HurryMsg, AssistantMsg, RushMsg>>,
     <<LongUserMsg, AssistantMsg, UrgentMsg>>,
     <<UserMsg, AssistantMsg, UserMsg, AssistantMsg, UserMsg, AssistantMsg>>,
     <<UrgentMsg, AssistantMsg, UserMsg, AssistantMsg, UserMsg, AssistantMsg>>,
     <<UserMsg, AssistantMsg, UserMsg, AssistantMsg, UrgentMsg, AssistantMsg>>,
     <<LongUserMsg, AssistantMsg, LongUserMsg, AssistantMsg, UserMsg, AssistantMsg>>,
     <<UserMsg, AssistantMsg, UserMsg, AssistantMsg, UserMsg, AssistantMsg,
       UserMsg, AssistantMsg, UserMsg, AssistantMsg, UserMsg>>}

StrategyInit ==
    /\ paused_conversations = EmptyDict
    /\ state_history = EmptyDict
    /\ now = 0
    /\ ret = NoCall
    /\ lock = Free
    /\ orchestrator = NewOrchestrator
    /\ tasks = [t \in TaskIds |-> IdleTask]
    /\ chat_sessions = EmptyDict
    /\ router = NewRouter(NoLoad)
    /\ \E stage \in ChatStage, history \in StrategyHistories :
          active_conversations =
             [s \in SessionIds |-> OrchestratorContext(stage, history, None)]

StrategyNext ==
    \E id \in SessionIds, first \in OrchestratorOutcomes :
        orchestrate_conversation_call(id, Hello, None, <<first, first>>)

StrategySpec == StrategyInit /\ [][StrategyNext]_vars

\* MasterAgent._determine_orchestration_pattern of advanced_master_agent.py:
\* the pattern handed to orchestrate_conversation is the value of a member.
\* Messages are told apart by the words the method looks for; none of them
\* has more than twenty words or a complexity score above 0.7.
UrgentMessage == "this is urgent"
SpecialMessage == "my case is special"
AndMessage == "a loan and a card"
MasterMessages == {UrgentMessage, SpecialMessage, AndMessage, Hello}

determine_orchestration_pattern(message, context) ==
    IF message = UrgentMessage THEN value("chain")
    ELSE IF message = SpecialMessage THEN value("tree")
    ELSE IF message = AndMessage THEN value("parallel")
    ELSE IF context.current_stage \in {GREETING, SALES} THEN value("conditional")
    ELSE value("linear")

\* Lines 116-121 of MasterAgent.process: the orchestrator is called with the
\* pattern the agent determined.
orchestrate_determined(session_id, message, outcomes) ==
    /\ session_id \in DOMAIN active_conversations
    /\ orchestrate_conversation_call(
          session_id, message,
          determine_orchestration_pattern(message, active_conversations[session_id]),
          outcomes)

PatternNext ==
    \E id \in SessionIds, message \in MasterMessages, first \in OrchestratorOutcomes, second \in OrchestratorOutcomes :
        orchestrate_determined(id, message, <<first, second>>)

PatternSpec == OrchestratorInit /\ [][PatternNext]_vars

\* ------------------------------------------------------------------ claims
\* The conversation with id, as the active store holds it.
Context(id) == active_conversations[id]

\* The step is a return of transition_stage.
TransitionReturned == ret'.op = "transition_stage"

\* C3: a Forward transition from stage S to stage T succeeds only if T is
\* the natural successor of S or is in the allow-listed jump set of S; any
\* other Forward request is rejected and the stage stays S.
C3_ForwardOnlyToSuccessorOrJump ==
    [][(TransitionReturned /\ ret'.kind = FORWARD
            /\ ret'.id \in DOMAIN active_conversations)
       => \A T \in ChatStage, u \in ContextUpdates :
            transition_stage(ret'.id, T, FORWARD, u)
            => LET S == Context(ret'.id).current_stage
               IN \/ (S = GREETING /\ T \in {SALES, VERIFICATION})
                  \/ (S = SALES /\ T \in {VERIFICATION, UNDERWRITING})
                  \/ (S = VERIFICATION /\ T \in {UNDERWRITING, SALES})
                  \/ (S = UNDERWRITING /\ T \in {APPROVED, SALES, VERIFICATION})
                  \/ /\ ret'.outcome = "rejected"
                     /\ active_conversations'[ret'.id].current_stage = S]_vars

\* C3 witness: a Forward request from SALES to a stage that is neither its
\* successor nor in its jump set has been rejected, and the stage is SALES.
C3_Witness ==
    /\ ret.op = "transition_stage"
    /\ ret.kind = FORWARD
    /\ ret.outcome = "rejected"
    /\ ret.message = "Invalid forward transition"
    /\ ret.id \in DOMAIN active_conversations
    /\ Context(ret.id).current_stage = SALES

\* C4 as stated: every transition that succeeds, the Forward transition to
\* the natural successor included, found the entry requirements of its
\* target stage met.
C4_EveryTransitionNeedsEntryRequirements ==
    [][(TransitionReturned /\ ret'.outcome = "ok")
       => validate_stage_requirements(ret'.new_stage, Context(ret'.id))]_vars

\* C4 as amended: a Forward transition to the natural successor is never
\* rejected, whether or not the entry requirements of the target are met;
\* every other transition that succeeds found them met; and a rejected
\* transition leaves the stage unchanged.
C4_EntryRequirementsExceptNaturalForward ==
    [][(TransitionReturned /\ ret'.id \in DOMAIN active_conversations)
       => LET context == Context(ret'.id)
              successor == natural_flow(context.current_stage)
          IN /\ (ret'.outcome = "ok"
                    /\ ~(ret'.kind = FORWARD /\ ret'.new_stage = successor))
                => validate_stage_requirements(ret'.new_stage, context)
             /\ (ret'.kind = FORWARD /\ successor # None)
                => \A u \in ContextUpdates :
                     transition_stage(ret'.id, successor, FORWARD, u)
                     => ret'.outcome # "rejected"
             /\ ret'.outcome = "rejected"
                => active_conversations'[ret'.id].current_stage
                     = context.current_stage]_vars

\* C4 witness: a Backward transition has succeeded, so its target's entry
\* requirements were looked at and found met.
C4_Witness ==
    /\ ret.op = "transition_stage"
    /\ ret.kind = BACKWARD
    /\ ret.outcome = "ok"
    /\ Context(ret.id).current_stage = ret.new_stage

\* C5: immediately after initialize_conversation(id), with no messages
\* handled yet, transition_stage(id, SALES, FORWARD) reports success and the
\* stage of the conversation becomes SALES.
C5_ForwardToSalesAfterInitialize ==
    [][(ret.op = "initialize_conversation" /\ TransitionReturned)
       => \A u \in ContextUpdates :
            transition_stage(ret.id, SALES, FORWARD, u)
            => /\ ret'.outcome = "ok"
               /\ active_conversations'[ret.id].current_stage = SALES]_vars

\* C5 witness: the first transition of a conversation with an empty history
\* was the Forward transition to SALES, and it succeeded.
C5_Witness ==
    /\ ret.op = "transition_stage"
    /\ ret.kind = FORWARD
    /\ ret.new_stage = SALES
    /\ ret.outcome = "ok"
    /\ Context(ret.id).current_stage = SALES
    /\ Context(ret.id).conversation_history = <<>>
    /\ Context(ret.id).metadata.transition_count = 1

\* C9: a rejected transition_stage call (unknown id, rule violation or unmet
\* entry requirements) returns (False, reason) and leaves the stage, the
\* transition counter, the last-activity time, the snapshot history and every
\* other field of the Context as they were: no context_updates are applied.
C9_RejectedTransitionChangesNothing ==
    [][(TransitionReturned /\ ret'.outcome = "rejected")
       => /\ ret'.message \in
                {"Conversation not found", "Invalid forward transition",
                 "Backward transition not allowed", "Jump conditions not met",
                 "Stage requirements not met"}
          /\ active_conversations' = active_conversations
          /\ state_history' = state_history
          /\ paused_conversations' = paused_conversations]_vars

\* C9 witness: a transition was rejected for unmet entry requirements at a
\* time when stamping the last activity would have changed the Context.
C9_Witness ==
    /\ ret.op = "transition_stage"
    /\ ret.outcome = "rejected"
    /\ ret.message = "Stage requirements not met"
    /\ ret.id \in DOMAIN active_conversations
    /\ Context(ret.id).metadata.last_activity < now

\* C10 as stated: once the stage of a conversation is APPROVED no Backward
\* transition succeeds and the stage stays APPROVED.
C10_ApprovedNeverGoesBackward ==
    [][(TransitionReturned /\ ret'.kind = BACKWARD
            /\ ret'.id \in DOMAIN active_conversations
            /\ Context(ret'.id).current_stage = APPROVED)
       => /\ ret'.outcome # "ok"
          /\ active_conversations'[ret'.id].current_stage = APPROVED]_vars

\* C10 as amended: once the stage is APPROVED the only Backward transition
\* that can succeed is the one to UNDERWRITING, and only when the entry
\* requirements of UNDERWRITING are met; every other Backward request is
\* rejected and the stage stays APPROVED.
C10_ApprovedGoesBackOnlyToUnderwriting ==
    [][(TransitionReturned /\ ret'.kind = BACKWARD
            /\ ret'.id \in DOMAIN active_conversations
            /\ Context(ret'.id).current_stage = APPROVED)
       => IF ret'.outcome = "ok"
          THEN /\ ret'.new_stage = UNDERWRITING
               /\ Context(ret'.id).verification_status = "completed"
               /\ Context(ret'.id).customer_phone # None
               /\ Context(ret'.id).loan_request # NoLoan
               /\ Len(Context(ret'.id).conversation_history) >= 4
          ELSE /\ ret'.outcome = "rejected"
               /\ active_conversations'[ret'.id].current_stage = APPROVED]_vars

\* C10 witness: a Backward transition out of APPROVED has succeeded (the
\* snapshot taken before it records APPROVED).
C10_Witness ==
    /\ ret.op = "transition_stage"
    /\ ret.kind = BACKWARD
    /\ ret.outcome = "ok"
    /\ LET history == state_history[ret.id]
       IN history[Len(history)].stage = APPROVED

\* C6 as stated: no conversation id is in the active store and the paused
\* store at the same time.
C6_NeverActiveAndPaused ==
    DOMAIN active_conversations \cap DOMAIN paused_conversations = {}

\* C7 as stated: when two transition calls with the same id, target stage
\* and kind run concurrently, exactly one reports success and the other
\* observes the post-state; the stage and the transition counter end as
\* after a single call.  This for Forward, Backward and Jump alike.
C7_DuplicateTransitionsSucceedOnce ==
    (\A t \in TaskIds : tasks[t].pc = "done" /\ tasks[t].gathered)
    => LET succeeded == {t \in TaskIds : tasks[t].result = "ok"}
           call == tasks[CHOOSE t \in TaskIds : TRUE]
       IN succeeded # {}
          => /\ Cardinality(succeeded) = 1
             /\ Context(call.session_id).current_stage = call.new_stage
             /\ Context(call.session_id).metadata.transition_count
                  = call.count_before + 1

\* C8 as stated: every step of a state manager call that writes a store is
\* taken while the call holds the manager-wide lock.
C8_StoreWritesHoldTheLock ==
    [][\A t \in TaskIds :
          (tasks'[t] # tasks[t]
             /\ <<active_conversations, paused_conversations, state_history>>'
                  # <<active_conversations, paused_conversations,
                       state_history>>)
          => lock = t]_vars

\* C1 as stated: handling a message never propagates an exception
\* to the caller; whatever the message and whichever Responder, transition
\* or save fails, MasterAgent.process returns a Reply.
C1_ProcessAlwaysReturnsAReply ==
    ~(ret.op = "process" /\ ret.outcome = "raised")

\* C2 as stated: whenever handling a message ends in a degraded
\* (error-fallback) Reply, the stage the state manager holds for that
\* conversation is the same as it was before the message was handled.
C2_DegradedReplyLeavesStage ==
    [][(/\ ret'.op = "process"
        /\ ret'.outcome = "degraded"
        /\ ret'.id \in DOMAIN active_conversations
        /\ ret'.id \in DOMAIN active_conversations')
       => active_conversations'[ret'.id].current_stage
            = active_conversations[ret'.id].current_stage]_vars

\* C11: a Jump transition succeeds only when its predicate over the Context
\* holds: a Jump to VERIFICATION needs loan_request and customer_phone
\* present, a Jump to UNDERWRITING needs in addition the verification
\* completed or explicitly skipped, and a Jump to any other stage is
\* rejected and leaves the stage as it was.
C11_JumpOnlyWhenPredicateHolds ==
    [][(TransitionReturned /\ ret'.kind = JUMP
            /\ ret'.id \in DOMAIN active_conversations)
       => \A T \in ChatStage, u \in ContextUpdates :
            transition_stage(ret'.id, T, JUMP, u)
            => LET c == Context(ret'.id)
                   informed == /\ c.customer_phone \notin {None, ""}
                               /\ c.loan_request # NoLoan
                   skipped == /\ "skip_verification" \in DOMAIN c.metadata
                              /\ c.metadata.skip_verification
               IN \/ /\ ret'.outcome = "ok"
                     /\ T = VERIFICATION
                     /\ informed
                  \/ /\ ret'.outcome = "ok"
                     /\ T = UNDERWRITING
                     /\ informed
                     /\ (c.verification_status = "completed" \/ skipped)
                  \/ /\ ret'.outcome = "rejected"
                     /\ active_conversations'[ret'.id].current_stage
                          = c.current_stage]_vars

\* C11 witness: a Jump to UNDERWRITING has succeeded, on a Context that
\* holds the loan request, the phone number and a completed verification.
C11_Witness ==
    /\ ret.op = "transition_stage"
    /\ ret.kind = JUMP
    /\ ret.outcome = "ok"
    /\ ret.new_stage = UNDERWRITING
    /\ ret.id \in DOMAIN active_conversations
    /\ Context(ret.id).current_stage = UNDERWRITING
    /\ Context(ret.id).customer_phone = Phone1
    /\ Context(ret.id).loan_request = Loan1

\* C12 as stated: initialize_conversation on an id that is already active
\* fails with AlreadyExists and leaves the existing Context (its stage, its
\* history and its fields) and its snapshots as they were.
C12_InitializeKeepsActiveContext ==
    [][\A id \in SessionIds :
         (id \in DOMAIN active_conversations /\ initialize_conversation(id))
         => /\ ret'.outcome = "AlreadyExists"
            /\ active_conversations'[id] = active_conversations[id]
            /\ state_history' = state_history]_vars

\* The delays after a pause at which a resume is still inside the window.
ResumeDelays == {0, 1, ResumeWindowHours * 3600}

\* The step is a successful pause_conversation of id for reason.
Paused(id, reason) ==
    /\ id \in DOMAIN active_conversations
    /\ pause_conversation(id, reason)
    /\ ret'.outcome = "ok"

\* The fields of a Context other than its metadata.
PlainFields(context) ==
    [f \in DOMAIN context \ {"metadata"} |-> context[f]]

\* C13 as stated: pause followed by resume within the 24-hour window
\* returns a Context equal field for field (stage, loan request, flags,
\* history, metadata) to the Context as it was before the pause.
C13_ResumeReturnsContextBeforePause ==
    [][\A id \in SessionIds, reason \in PauseReasons :
         Paused(id, reason)
         => \A d \in ResumeDelays :
              LET entry == paused_conversations'[id]
              IN /\ ~too_old_to_resume(entry, now' + d)
                 /\ resumed_context(entry, now' + d)
                      = active_conversations[id]]_vars

\* C13 amended: pause followed by resume within the 24-hour window returns
\* a Context equal to the one before the pause in every field but the
\* metadata; of the metadata, conversation_state is active whatever it
\* was, last_activity and resume_time are the time of the resume,
\* pause_reason is the reason given, and every other key is as it was.
\* The paused entry is what resume_conversation reads, and only pause,
\* resume and cleanup touch the store it is in.
C13_ResumeRestoresAllButMetadata ==
    [][/\ \A id \in SessionIds, reason \in PauseReasons :
            Paused(id, reason)
            => \A d \in ResumeDelays :
                 LET before == active_conversations[id]
                     entry == paused_conversations'[id]
                     after == resumed_context(entry, now' + d)
                     rewritten == {"conversation_state", "last_activity",
                                   "resume_time", "pause_reason"}
                 IN /\ ~too_old_to_resume(entry, now' + d)
                    /\ PlainFields(after) = PlainFields(before)
                    /\ DOMAIN after.metadata
                         = DOMAIN before.metadata
                             \cup {"resume_time", "pause_reason"}
                    /\ \A k \in DOMAIN before.metadata \ rewritten :
                         after.metadata[k] = before.metadata[k]
                    /\ after.metadata.conversation_state = "active"
                    /\ after.metadata.last_activity = now' + d
                    /\ after.metadata.resume_time = now' + d
                    /\ after.metadata.pause_reason = reason
       /\ \A id \in SessionIds :
            (id \in DOMAIN paused_conversations /\ resume_conversation(id)
                /\ ret'.outcome = "ok")
            => active_conversations'[id]
                 = resumed_context(paused_conversations[id], now)
       /\ \A id \in DOMAIN paused_conversations :
            \/ id \in DOMAIN paused_conversations'
                 /\ paused_conversations'[id] = paused_conversations[id]
            \/ ret'.op \in {"pause_conversation", "resume_conversation",
                             "cleanup_old_conversations"}]_vars

\* C13 witness: a conversation that had left GREETING and had been marked
\* escalated was paused and resumed; it is active again at its stage.
C13_Witness ==
    /\ ret.op = "resume_conversation"
    /\ ret.outcome = "ok"
    /\ ret.id \in DOMAIN active_conversations
    /\ Context(ret.id).current_stage # GREETING
    /\ "resume_time" \in DOMAIN Context(ret.id).metadata
    /\ Context(ret.id).metadata.conversation_state = "active"
    /\ Context(ret.id).metadata.escalation_flags # <<>>

\* C14: resume of a conversation paused for longer than 24 hours returns
\* not-found, removes it from the paused store without making it active,
\* and every later resume of that id also returns not-found: a resume of an
\* id that is not paused returns not-found and changes nothing, and an id
\* comes into the paused store only by being paused again.
C14_ExpiredResumeDiscards ==
    [][\A id \in SessionIds :
         /\ (/\ id \in DOMAIN paused_conversations
             /\ now - paused_conversations[id].pause_time > 24 * 3600
             /\ resume_conversation(id))
            => /\ ret'.outcome = "rejected"
               /\ id \notin DOMAIN paused_conversations'
               /\ active_conversations' = active_conversations
         /\ (id \notin DOMAIN paused_conversations /\ resume_conversation(id))
            => /\ ret'.outcome = "rejected"
               /\ UNCHANGED smVars
         /\ (/\ id \notin DOMAIN paused_conversations
             /\ id \in DOMAIN paused_conversations')
            => /\ ret'.op = "pause_conversation"
               /\ ret'.outcome = "ok"]_vars

\* C14 witness: a resume came one second after the 24 hours and was
\* refused; the conversation is neither paused nor active.
C14_Witness ==
    /\ ret.op = "resume_conversation"
    /\ ret.outcome = "rejected"
    /\ ret.message = "too old"
    /\ now = LongTick
    /\ ret.id \notin DOMAIN paused_conversations
    /\ ret.id \notin DOMAIN active_conversations

\* C15 as stated: the state manager is the sole writer of a conversation's
\* stage: the stage a conversation is handled in changes only in a step in
\* which transition_stage reported success (it counted one more transition
\* and holds the same stage), so a rejected transition leaves it alone.
C15_StageWrittenOnlyByStateManager ==
    [][\A id \in DOMAIN chat_sessions \cap DOMAIN chat_sessions' :
         chat_sessions'[id].current_stage # chat_sessions[id].current_stage
         => /\ id \in DOMAIN active_conversations
            /\ id \in DOMAIN active_conversations'
            /\ active_conversations'[id].metadata.transition_count
                 > active_conversations[id].metadata.transition_count
            /\ active_conversations'[id].current_stage
                 = chat_sessions'[id].current_stage]_vars

\* The session whose Context the last Reply was built from.
Decided == chat_sessions[ret.id]

\* C16: the first-pass underwriting outcome is, for every amount,
\* pre-approved limit and credit score: rejected with EMI 0 when the score
\* is below 700, whatever the amount; otherwise approved iff amount <=
\* limit; otherwise not approved but flagged requires-income-proof, with a
\* positive EMI, iff limit < amount <= 2 * limit; otherwise rejected.
C16_FirstPassOutcome ==
    (/\ ret.op = "process"
     /\ ret.id \in DOMAIN chat_sessions
     /\ "underwriting_result" \in DOMAIN Decided
     /\ Decided.underwriting_result # <<>>)
    => LET result == Decided.underwriting_result[1]
           amount == Decided.loan_request[1].amount
           limit == Decided.pre_approved_limit
           score == Decided.credit_score
       IN /\ result.loan_amount = amount
          /\ score < 700
                => /\ ~result.approved
                   /\ ~result.requires_salary_slip
                   /\ result.emi = 0
                   /\ ret.new_stage = REJECTED
          /\ score >= 700
                => /\ result.approved <=> amount <= limit
                   /\ result.requires_salary_slip
                        <=> (limit < amount /\ amount <= 2 * limit)
                   /\ result.emi > 0
                   /\ ret.new_stage =
                        (IF amount <= limit THEN COMPLETED
                         ELSE IF amount <= 2 * limit THEN SALARY_SLIP
                         ELSE REJECTED)

\* C16 witness: with a score of 700 an amount of exactly twice the limit
\* came out not approved and flagged requires-income-proof.
C16_Witness ==
    /\ ret.op = "process"
    /\ ret.id \in DOMAIN chat_sessions
    /\ "underwriting_result" \in DOMAIN Decided
    /\ Decided.underwriting_result # <<>>
    /\ Decided.credit_score = 700
    /\ Decided.loan_request[1].amount = 2 * Decided.pre_approved_limit
    /\ Decided.underwriting_result[1].requires_salary_slip
    /\ ~Decided.underwriting_result[1].approved

Routed == ret.op = "route_request"

\* C18: whatever the strategy, and also when the routing is forced or falls
\* back after an error, route_request never returns an agent marked
\* unavailable while at least one agent is marked available.
C18_NeverRoutesToUnavailable ==
    (Routed /\ \E a \in AgentNames : router.agent_availability[a])
        => router.agent_availability[ret.message.selected_agent]


\* The agents the load-based strategy chooses among: the available ones, or
\* all of them when none is available.
LoadCandidates ==
    IF \E a \in AgentNames : router.agent_availability[a]
    THEN {a \in AgentNames : router.agent_availability[a]}
    ELSE AgentNames

\* C19: with the load-based strategy route_request selects an agent whose
\* load counter is the lowest (of loads 5, 1, 3 the agent with load 1), and
\* among agents that share the lowest load it selects one that the
\* score-based order ranks first, i.e. one with the highest performance score.
C19_LoadBasedTieBrokenByScore ==
    [][(ret'.op = "route_request" /\ ret'.message.rationale = "load balancing")
        => LET selected == ret'.message.selected_agent
           IN  /\ selected \in LoadCandidates
               /\ \A a \in LoadCandidates :
                     /\ router.agent_load[selected] <= router.agent_load[a]
                     /\ router.agent_load[selected] = router.agent_load[a]
                          => performance_scores(router)[selected]
                               >= performance_scores(router)[a]]_vars


\* C20: execute_with_agent invokes the selected agent first, never more than
\* two agents, and returns a Reply rather than raising. When the selected
\* agent raises, its error count goes up by one and the first alternative of
\* the decision is invoked once; when that raises too, the Reply is the fixed
\* apology at the context's current stage, and otherwise it is the
\* alternative's Reply.
C20_ExecuteRetriesOnceThenApologises ==
    [][ret'.op = "execute_with_agent"
        => LET decision == ret.message
               result == ret'.message
               chosen == decision.selected_agent
           IN  /\ ret'.outcome = "ok"
               /\ Len(result.invoked) \in {1, 2}
               /\ Len(result.raised) = Len(result.invoked)
               /\ result.invoked[1] = chosen
               /\ result.raised[1]
                    => /\ router'.performance_metrics[chosen].error_count
                            = router.performance_metrics[chosen].error_count + 1
                       /\ Len(result.invoked) = 2
                       /\ result.invoked[2] = decision.alternative_agents[1]
                       /\ result.raised[2]
                            => (result.apology /\ ret'.new_stage = result.current_stage)
                       /\ ~result.raised[2] => ~result.apology]_vars

\* Both the selected agent and the alternative raised, at a context stage
\* no agent replies with, and the apology came back.
C20_Witness ==
    /\ ret.op = "execute_with_agent"
    /\ ret.message.raised = <<TRUE, TRUE>>
    /\ ret.message.invoked[1] # ret.message.invoked[2]
    /\ ret.message.apology
    /\ ret.new_stage = UNDERWRITING
    /\ \E a \in AgentNames : router.performance_metrics[a].error_count = 1


\* The step is a return of orchestrate_conversation.
OrchestrationReturned == ret.op = "orchestrate_conversation"

\* The canonical Responder of the stage of the conversation just handled.
CanonicalResponder ==
    stage_routing(active_conversations[ret.id].current_stage).primary_agent

\* C21: when the pattern execution raises, orchestrate_conversation calls the
\* canonical Responder of the current stage once more, directly, before it
\* settles for the generic fallback Reply.
C21_RetryAgainstCanonicalResponder ==
    (/\ OrchestrationReturned
     /\ ret.message.pattern_raised
     /\ has_stage_rules(active_conversations[ret.id].current_stage)
     /\ CanonicalResponder \in AgentNames)
        => ret.message.retried = <<CanonicalResponder>>


\* C22: a call of orchestrate_conversation, whatever the pattern, whatever
\* the Responders do and whether or not it ends in the error handler, leaves
\* the current_stage of the Context as it found it.
C22_OrchestratorKeepsStage ==
    [][ret'.op = "orchestrate_conversation"
        => \A id \in DOMAIN active_conversations :
              /\ id \in DOMAIN active_conversations'
              /\ active_conversations'[id].current_stage
                    = active_conversations[id].current_stage]_vars

\* A Responder wrote the loan request to the Context, and the Reply that
\* came back names another stage than the Context has.
C22_Witness ==
    /\ OrchestrationReturned
    /\ ~ret.message.pattern_raised
    /\ active_conversations[ret.id].loan_request = Loan1
    /\ ret.new_stage # active_conversations[ret.id].current_stage


\* C29: in the Sequential (linear) pattern, when the canonical Responder of
\* the stage returns a Reply, no fallback Responder is invoked and that
\* Reply is the result of the call.
C29_LinearReturnsCanonicalReply ==
    (/\ OrchestrationReturned
     /\ ret.message.strategy = "linear"
     /\ ret.message.invoked # <<>>
     /\ ret.message.invoked[1] = CanonicalResponder
     /\ ~ret.message.raised[1])
        => /\ ret.message.invoked = <<CanonicalResponder>>
           /\ ret.message.response.agent = CanonicalResponder


\* The Responders the Chain pattern declares for the stage of the
\* conversation just handled.
DeclaredChain ==
    stage_routing(active_conversations[ret.id].current_stage).chain_sequence

\* C30: the Chain pattern invokes the Responders of the declared chain in
\* their order; every Responder before the last one invoked returned a Reply
\* that is not final; and when some Responder returned, the call does not
\* end in the error handler and its result is the Reply of the last
\* Responder that returned (with the orchestrator's metadata attached).
C30_ChainStopsAtFinalOrRaise ==
    (/\ OrchestrationReturned
     /\ ret.message.strategy = "chain"
     /\ has_stage_rules(active_conversations[ret.id].current_stage))
        => LET m == ret.message
               n == Len(m.invoked)
               returned == {i \in 1..n : ~m.raised[i]}
               last == CHOOSE i \in returned : \A j \in returned : j <= i
           IN  /\ n <= Len(DeclaredChain)
               /\ \A i \in 1..n : m.invoked[i] = DeclaredChain[i]
               /\ \A i \in 1..(n - 1) : ~m.raised[i] /\ ~m.replies[i][1].final
               /\ returned = {} => m.pattern_raised
               /\ returned # {}
                    => /\ ~m.pattern_raised
                       /\ m.response = [m.replies[last][1] EXCEPT !.metadata = "dict"]

\* The first Responder of a chain of two returned a final Reply, and the
\* second was not invoked.
C30_Witness ==
    /\ OrchestrationReturned
    /\ ret.message.strategy = "chain"
    /\ Len(DeclaredChain) = 2
    /\ ret.message.invoked = <<DeclaredChain[1]>>
    /\ ret.message.replies[1] # <<>>
    /\ ret.message.replies[1][1].final
    /\ ret.message.response.agent = DeclaredChain[1]


\* C27: a transition_stage call that returns success leaves the history
\* with exactly one more snapshot at its end, the one of the Context as the
\* call found it, behind the snapshots it held (all of them, or all but the
\* oldest when the history was full); the transition counter is greater by
\* exactly 1 and the last-activity stamp is the time of the call.
C27_TransitionRecordsOneSnapshot ==
    [][(TransitionReturned /\ ret'.outcome = "ok")
        => LET before == state_history[ret'.id]
               after == state_history'[ret'.id]
               kept == IF Len(before) < HistoryLimit THEN before ELSE Tail(before)
           IN  /\ Len(after) = Len(kept) + 1
               /\ SubSeq(after, 1, Len(kept)) = kept
               /\ after[Len(after)].stage = Context(ret'.id).current_stage
               /\ after[Len(after)].timestamp = now
               /\ active_conversations'[ret'.id].metadata.transition_count
                     = Context(ret'.id).metadata.transition_count + 1
               /\ active_conversations'[ret'.id].metadata.last_activity = now]_vars

\* A transition succeeded a day or more after the conversation began: its
\* snapshot and its activity stamp carry the later time.
C27_Witness ==
    /\ ret.op = "transition_stage"
    /\ ret.outcome = "ok"
    /\ now > 0
    /\ Context(ret.id).metadata.last_activity = now
    /\ Context(ret.id).metadata.transition_count = 1
    /\ Len(state_history[ret.id]) = 2
    /\ Last(state_history[ret.id], 1)[1].timestamp = now

\* C28: a history never holds more than 50 snapshots, and the snapshot a
\* successful transition adds to a history of 50 pushes out the oldest one:
\* the 49 newer snapshots move up by one place and the new one is the last.
C28_HistoryKeepsNewestFifty ==
    /\ [](\A id \in DOMAIN state_history : Len(state_history[id]) <= HistoryLimit)
    /\ [][(/\ TransitionReturned
            /\ ret'.outcome = "ok"
            /\ Len(state_history[ret'.id]) = HistoryLimit)
                => /\ Len(state_history'[ret'.id]) = HistoryLimit
                   /\ \A i \in 1..(HistoryLimit - 1) :
                         state_history'[ret'.id][i] = state_history[ret'.id][i + 1]
                   /\ state_history'[ret'.id][HistoryLimit].timestamp = now]_vars

\* A history of 50 snapshots whose conversation has made 50 transitions or
\* more: the snapshot of initialize_conversation, taken at GREETING, has been
\* pushed out, and the newest snapshot is later than the oldest.
C28_Witness ==
    \E id \in DOMAIN state_history \cap DOMAIN active_conversations :
        /\ Len(state_history[id]) = HistoryLimit
        /\ Context(id).metadata.transition_count >= HistoryLimit
        /\ state_history[id][1].stage # GREETING
        /\ state_history[id][1].timestamp < state_history[id][HistoryLimit].timestamp


\* C25: the cleanup sweep evicts the idle conversations: when a sweep
\* returns, the active store holds no conversation whose last activity is
\* further back than the abandonment window.
C25_SweepEvictsIdleConversation ==
    [][ret'.op = "cleanup_old_conversations"
        => \A id \in DOMAIN active_conversations' :
              now' - active_conversations'[id].metadata.last_activity
                 <= AbandonMinutes * 60]_vars


\* The first pass computed an EMI for the loan request.
EmiComputed ==
    /\ ret.op = "process"
    /\ ret.id \in DOMAIN chat_sessions
    /\ Decided.underwriting_result # <<>>
    /\ Decided.underwriting_result[1].emi > 0

\* The first pass computed the EMI of 500000 rupees at 12.5% over 60 months.
EmiOfExample ==
    /\ EmiComputed
    /\ Decided.underwriting_result[1].loan_amount = 500000
    /\ Decided.underwriting_result[1].interest_rate = 1250
    /\ Decided.underwriting_result[1].tenure = 60

\* C26 (as stated): for P = 500000, 12.5% a year and n = 60 the EMI is
\* 11,243 within 1.
C26_EmiOfExampleIs11243 ==
    EmiOfExample
        => Decided.underwriting_result[1].emi \in 11242..11244

\* C26 (amended): for P = 500000, 12.5% a year and n = 60 the EMI is 11,249
\* within 1; and for every loan the maximum-loan formula of the second pass,
\* given the EMI (a salary of twice the EMI) at the result's rate and tenure,
\* returns the loan amount to within what one rupee of EMI is worth.
C26_EmiAndMaxLoanAreInverses ==
    EmiComputed
        => LET result == Decided.underwriting_result[1]
               recovered == max_loan_amount(2 * result.emi, result)
               rupee == result.loan_amount \div result.emi + 1
           IN  /\ EmiOfExample => result.emi \in 11248..11250
               /\ recovered <= result.loan_amount + rupee
               /\ result.loan_amount <= recovered + rupee

C26_Witness ==
    /\ EmiOfExample
    /\ Decided.underwriting_result[1].emi = 11248
    /\ max_loan_amount(2 * 11248, Decided.underwriting_result[1]) = 499957


\* The messages the user sent in a conversation, oldest first.
user_messages(context) ==
    LET sent == SelectSeq(context.conversation_history,
                          LAMBDA entry : entry.sender = UserMsg)
    IN [i \in DOMAIN sent |-> sent[i].message]

\* A saved session that was sent "hi", the phone number and the message
\* that gives amount, tenure and purpose, each answered.
ScenarioDone(id) ==
    /\ user_messages(chat_sessions[id]) = <<Hi, PhoneMessage, RequestMessage>>
    /\ Len(chat_sessions[id].conversation_history) = 6

\* C23: a new conversation that is sent "hi", then a ten-digit phone number,
\* then a message giving amount, tenure and purpose, is at SALES after the
\* first message and at VERIFICATION after the third.
C23_ScenarioEndsAtVerification ==
    \A id \in DOMAIN chat_sessions :
        /\ (/\ user_messages(chat_sessions[id]) = <<Hi>>
            /\ Len(chat_sessions[id].conversation_history) = 2)
                => chat_sessions[id].current_stage = SALES
        /\ ScenarioDone(id) => chat_sessions[id].current_stage = VERIFICATION

\* C24: every LoanRequest stored in a saved conversation has its amount
\* within 10,000..5,000,000 and its tenure within 6..84 months where they
\* are set, corrections of amount and tenure included.
C24_StoredLoanRequestWithinLimits ==
    \A id \in DOMAIN chat_sessions :
        validates(chat_sessions[id].loan_request)

\* The step is a return of orchestrate_conversation from the parallel
\* pattern, run for a conversation at a stage that has routing rules.
ParallelReturned ==
    /\ ret'.op = "orchestrate_conversation"
    /\ ret'.message.strategy = "parallel"
    /\ has_stage_rules(Context(ret'.id).current_stage)

\* The risk assessment computed from a credit score.
RiskOf(credit_score) ==
    [risk_score |-> risk_score(credit_score),
     risk_category |-> risk_category(risk_score(credit_score))]

\* C31: in the parallel pattern a lookup that raises leaves its field of
\* the Context as it was while the results of the other sub-tasks are
\* written, each from the Context as it was before the pattern ran, and
\* UnderwritingAgent is invoked exactly once, with the aggregated Context,
\* whatever the order in which the sub-tasks complete.
C31_ParallelSubtasksIsolated ==
    [][ParallelReturned
       => LET before == Context(ret'.id)
              lookups == ret'.message.lookups
              declared == before.current_stage = UNDERWRITING
              looked_up == declared /\ before.customer_phone # None
          IN  /\ ret'.message.invoked = <<"underwriting">>
              /\ \A i \in DOMAIN ret'.message.retried :
                    ret'.message.retried[i] # "underwriting"
              /\ ret'.message.aggregated # <<>>
              /\ ret'.message.aggregated[1].credit_score =
                    IF looked_up /\ ~lookups.credit_raises
                    THEN BureauScore ELSE before.credit_score
              /\ ret'.message.aggregated[1].pre_approved_limit =
                    IF looked_up /\ ~lookups.offer_raises
                    THEN OfferLimit ELSE before.pre_approved_limit
              /\ declared
                 => /\ "risk_assessment" \in DOMAIN ret'.message.aggregated[1].metadata
                    /\ ret'.message.aggregated[1].metadata.risk_assessment
                          = RiskOf(before.credit_score)
              /\ ret'.message.raised = <<TRUE>>
                 => active_conversations'[ret'.id] = ret'.message.aggregated[1]
      ]_vars

\* The credit lookup raised for a verified customer who held an earlier
\* score, the offer lookup returned, the risk assessment completed first,
\* and UnderwritingAgent was then called.
C31_Witness ==
    /\ ret.op = "orchestrate_conversation"
    /\ ret.message.strategy = "parallel"
    /\ ret.message.lookups.credit_raises
    /\ ~ret.message.lookups.offer_raises
    /\ ret.message.lookups.order[1] = 3
    /\ ret.message.aggregated # <<>>
    /\ ret.message.aggregated[1].current_stage = UNDERWRITING
    /\ ret.message.aggregated[1].credit_score = 720
    /\ ret.message.aggregated[1].pre_approved_limit = OfferLimit
    /\ ret.message.invoked = <<"underwriting">>

\* C32: handed no pattern, the orchestrator runs the decision tree when the
\* linguistic complexity of the history is high, else the chain when its
\* urgency score is above 0.7, else the linear pattern when engagement is
\* low, and else the pattern the rules declare for the current stage.
C32_StrategyByComplexityUrgencyEngagement ==
    (OrchestrationReturned /\ ret.message.strategy # None)
       => LET stage == Context(ret.id).current_stage
              history == Context(ret.id).conversation_history
          IN  IF complexity(history) = "high"
              THEN ret.message.strategy = "tree"
              ELSE IF urgency_above_threshold(history)
              THEN ret.message.strategy = "chain"
              ELSE IF history # <<>> /\ engagement(history) = "low"
              THEN ret.message.strategy = "linear"
              ELSE has_stage_rules(stage)
                   => ret.message.strategy = stage_routing(stage).pattern

\* The decision tree was chosen for a history that is both complex and
\* urgent, at a stage that declares another pattern.
C32_Witness ==
    /\ OrchestrationReturned
    /\ ret.message.strategy = "tree"
    /\ complexity(Context(ret.id).conversation_history) = "high"
    /\ urgency_above_threshold(Context(ret.id).conversation_history)
    /\ Context(ret.id).current_stage = UNDERWRITING

\* The score an agent has of its own under each of the three strategies, in
\* ten-thousandths: its performance score, the confidence the load-based
\* strategy computes from its load, and its context score.
OwnLoadScore(r, a) ==
    MaxOf(10000 - (r.agent_load[a] * 10000) \div MaxOf(r.agent_load[first_max(Agents, r.agent_load)], 1), 3000)

OwnWeightedScore(r, analysis) ==
    [a \in AgentNames |->
        performance_scores(r)[a] * routing_weights.performance
        + OwnLoadScore(r, a) * routing_weights.load_balance
        + MinOf(context_score(a, analysis), 10000) * routing_weights.context_match
        + (IF r.agent_availability[a] THEN 10000 * routing_weights.availability ELSE 0)]

\* The router as route_request found it when it returned a decision made by
\* a strategy: the load of the selected agent was one lower.
RouterBefore ==
    [router EXCEPT !.agent_load[ret.message.selected_agent] = @ - 1]

\* C33: with the hybrid strategy route_request selects the agent whose own
\* performance, load and context scores, weighted and added to the
\* availability weight, give the highest sum, the first such agent in the
\* order sales, verification, underwriting.
C33_HybridMaximizesOwnWeightedScores ==
    (Routed /\ ret.message.rationale = "hybrid")
       => \A message \in RouterMessages, stage \in RouterStages :
             ret.message = hybrid_routing(RouterBefore, analyze_request_context(message, stage))
             => ret.message.selected_agent
                   = first_max(Agents, OwnWeightedScore(RouterBefore, analyze_request_context(message, stage)))

\* C34: the load counter of an agent counts the requests routed to it that
\* are still being executed: when execute_with_agent returns for a request a
\* strategy routed to an agent, that agent's counter is one lower than
\* route_request left it.
C34_LoadCountsOutstandingRequests ==
    [][(/\ ret.op = "route_request"
        /\ ret.message.rationale \notin {"forced", "fallback"}
        /\ ret'.op = "execute_with_agent")
       => router'.agent_load[ret.message.selected_agent]
             = router.agent_load[ret.message.selected_agent] - 1
      ]_vars

\* C40: the agent a decision of route_request selects is not among the
\* alternatives of that decision, and the agent execute_with_agent calls
\* after a failure is another one than the agent that failed.
C40_SelectedNotAmongAlternatives ==
    /\ Routed
       => \A i \in DOMAIN ret.message.alternative_agents :
             ret.message.alternative_agents[i] # ret.message.selected_agent
    /\ (ret.op = "execute_with_agent" /\ Len(ret.message.invoked) = 2)
       => ret.message.invoked[2] # ret.message.invoked[1]

C36_RunsRoutineOfGivenPattern ==
    (OrchestrationReturned /\ ret.message.strategy # None)
       => \A pattern \in OrchestrationPattern :
             ret.message.strategy = value(pattern) => ret.message.routine = pattern

\* C37: when transition_stage has moved a conversation to APPROVED, the
\* conversation_state of the conversation is "completed"; so it is for a
\* conversation moved forward from GREETING through SALES, VERIFICATION and
\* UNDERWRITING, without a frustration word and within the time threshold.
C37_ApprovedIsCompleted ==
    (/\ ret.op = "transition_stage"
     /\ ret.outcome = "ok"
     /\ ret.new_stage = APPROVED
     /\ ret.id \in DOMAIN active_conversations)
       => Context(ret.id).metadata.conversation_state = "completed"

\* C38: whatever transitions are asked for, of whatever kind and with
\* whatever the Context holds, a conversation begun at GREETING is only ever
\* at GREETING, SALES, VERIFICATION, UNDERWRITING or APPROVED.
C38_TransitionsStayInMainFlow ==
    \A id \in DOMAIN active_conversations :
        Context(id).current_stage \in {GREETING, SALES, VERIFICATION, UNDERWRITING, APPROVED}

\* C39: when MasterAgent.process of advanced_master_agent.py has returned a
\* Reply for a conversation, the stage of the Reply is the stage the State
\* Manager holds for that conversation.
C39_ReplyStageIsManagedStage ==
    (ret.op = "process" /\ ret.id \in DOMAIN active_conversations)
       => ret.new_stage = Context(ret.id).current_stage

====
